---------------------------- MODULE Spec2Model ----------------------------
(***************************************************************************)
(* Round simulation and candle aggregation of the crash game.              *)
(*                                                                         *)
(* Two chart components implement the round state machine:                 *)
(*   CrashChart        src/unnamed/part_006   (the chart MainLayout mounts)*)
(*   CandlestickChart  src/src/components/Chart/CandlestickChart.tsx       *)
(* Exactly one of them is mounted in a behaviour (variable chart).  A      *)
(* behaviour starts either at the mount of the component or in a round     *)
(* that has been running for long: with a full candle buffer, or with a    *)
(* price that has fallen close to the floor.  SpecDraws starts the first   *)
(* round with every draw of the crash point generators, SpecRender adds    *)
(* the animation frames of the render clock.                               *)
(*                                                                         *)
(* Numbers.  Multipliers are fixed-point integers in units of 0.00001      *)
(* (Fix(1,1) is 1.0).  Every product the rounds form with the inputs used  *)
(* here is exact in that unit, so the arithmetic is that of the reals; the *)
(* interpolation step of the render loop is rounded down to the unit.      *)
(* IEEE rounding of the JavaScript doubles is not modelled.                *)
(*                                                                         *)
(* Scheduling.  JavaScript runs every callback to completion on one        *)
(* thread; which pending timer fires next is not determined by the code,   *)
(* so every alive timer may fire in any state.  React applies the state    *)
(* updates queued by a callback in the render that follows it (one action  *)
(* here), and runs the passive effects of that render (useEffect setup and *)
(* cleanup) later, in a task of their own: a timer may fire in between.    *)
(* Before the next render React first flushes the effects still pending.   *)
(***************************************************************************)
EXTENDS Integers, Sequences, FiniteSets, TLC

VARIABLES
    chart,        \* the component mounted: "CrashChart" or "CandlestickChart"
    mounted,      \* the chart component is mounted
    timers,       \* the alive timers (setTimeout / setInterval) with their closures
    nextId,       \* the id the next timer gets (ids grow, as in a browser)
    pub,          \* the snapshots the last step published to the betting context
    round,        \* history: rounds started so far
    tickNo,       \* history: ticks processed so far
    noTickYet,    \* history: no tick has been processed in the round so far
    crashes,      \* history: times the crash branch ran in the current round
    lastStep,     \* history: what the last step was, and the value it stepped to
    aggCalls,     \* history: the calls of performCandleAggregation in the last step
    genCalls,     \* history: the calls of generateCrashPoint in the last step
    \* ---- CrashChart (part_006) ----
    phase, targetPrice, crashPoint, countdown, candles,
    displayPrice,    \* the interpolated price the canvas shows
    targetPriceRef,  \* targetPriceRef.current, which the render loop reads
    tickEff,      \* game tick effect: deps of its last run, handle of its interval
    cdEff,        \* countdown effect: deps of its last run, handle of its interval
    startHandle,  \* initial-start effect: handle of its timeout
    \* ---- CandlestickChart ----
    gameState, chartData,
    currentPrice,       \* the interpolated price (state of line 154)
    animCallbacks,      \* AnimationFrameManager.callbacks, by the round that added them
    testMode,           \* the testMode state of the last render (line 138)
    raf,                \* AnimationFrameManager: isRunning, rafId, the requests pending
    frameLoop,          \* AnimationFrameManager.tick: the callbacks its loop has yet to visit
    candleIntervalRef,  \* candleIntervalRef.current (0 is null)
    now,          \* Date.now(), in ms since the component mounted
    syncEff       \* the [chartData] effect of the last render, if not yet run

ccVars == <<phase, targetPrice, crashPoint, countdown, candles, displayPrice,
           targetPriceRef, tickEff, cdEff, startHandle>>
csVars == <<gameState, chartData, currentPrice, animCallbacks, testMode, raf, frameLoop,
           candleIntervalRef,
           now, syncEff>>
histVars == <<round, tickNo, noTickYet, crashes, lastStep, aggCalls, genCalls>>
vars == <<chart, mounted, timers, nextId, pub, histVars, ccVars, csVars>>

-----------------------------------------------------------------------------
(* Bounds of the exploration. *)
MaxRounds == 3      \* rounds started in one behaviour
MaxTicks == 7       \* ticks processed in one behaviour
MaxRequests == 3    \* animation frame requests pending at once

(* Fixed point: n/d as a multiple of 0.00001. *)
Fix(n, d) == (n * 100000) \div d
Max(a, b) == IF a >= b THEN a ELSE b
Min(a, b) == IF a <= b THEN a ELSE b

(* The values of Math.random(), in [0, 1), that select a branch: 0, 1/2,   *)
(* and every threshold the generators compare a draw with together with    *)
(* the value just below it.                                                *)
Draws == {0, Fix(1, 2), Fix(1, 1) - 1}
         \cup UNION {{t - 1, t} : t \in {Fix(1, 10), Fix(3, 10), Fix(4, 10), Fix(7, 10),
                                         Fix(8, 10), Fix(9, 10)}}
(* The values of Math.random() that are scaled into a range: the products  *)
(* with the widths of the ranges are exact in the unit.                    *)
Scales == {0, Fix(1, 2), Fix(99, 100)}
(* The draws a round of CrashChart starts with (crash points 0.745 and     *)
(* 1.16) and those of CandlestickChart (crash points 0.745 and 1.109):     *)
(* one crash point below and one above the initial price, each within      *)
(* reach of the ticks explored.                                            *)
RoundDrawsCC == {<<Fix(1, 10), Fix(1, 2)>>, <<Fix(1, 2), Fix(1, 10)>>}
RoundDrawsCS == {<<Fix(1, 10), Fix(1, 2), Fix(1, 2)>>, <<Fix(9, 10), Fix(1, 10), Fix(1, 10)>>}
(* The per-tick price movements explored (momentum of the price step). *)
Momenta == {0 - Fix(1, 10), Fix(1, 10)}

Snapshot(active, mult, cp) ==
    [isGameActive |-> active, currentMultiplier |-> mult, crashPoint |-> cp]

NoStep == [kind |-> "none", value |-> 0, id |-> 0]
(* A timer and what its callback closes over: the round that created it,   *)
(* the crash point (cp) and running price (tpv) of a tick interval, and    *)
(* the handle of the fade-out interval a countdown interval clears (peer). *)
TimerX(id, kind, rnd, cp, tpv, peer) ==
    [id |-> id, kind |-> kind, round |-> rnd, cp |-> cp, tpv |-> tpv, peer |-> peer]
Timer(id, kind, rnd, cp) == TimerX(id, kind, rnd, cp, 0, 0)
TimersOf(kind) == {t \in timers : t.kind = kind}

-----------------------------------------------------------------------------
(*                        AnimationFrameManager                            *)

(* performance.ts:240-243.  A request of requestAnimationFrame is named by *)
(* the least id no pending request has: ids are only compared with the    *)
(* ids of pending requests, and every request overwrites rafId.            *)
IdleRaf == [isRunning |-> FALSE, rafId |-> 0, pending |-> {}]
RunningRaf == [isRunning |-> TRUE, rafId |-> 1, pending |-> {1}]
NoLoop == [active |-> FALSE, toVisit |-> {}]
ManagerOf(cbs, r) ==
    [callbacks |-> cbs, isRunning |-> r.isRunning, rafId |-> r.rafId, pending |-> r.pending]
RafOf(m) == [isRunning |-> m.isRunning, rafId |-> m.rafId, pending |-> m.pending]
CanRequest(m) == Cardinality(m.pending) < MaxRequests
FreshId(m) == CHOOSE n \in 1..(MaxRequests + 1) :
                 n \notin m.pending /\ \A k \in 1..(n - 1) : k \in m.pending

(* performance.ts:306: this.rafId = requestAnimationFrame(this.tick). *)
RequestFrame(m) == [m EXCEPT !.rafId = FreshId(m), !.pending = @ \cup {FreshId(m)}]

(* performance.ts:285-307: tick, called directly by start; the callbacks   *)
(* it invokes are taken not to call the manager.                           *)
tick(m) == IF ~m.isRunning THEN m ELSE RequestFrame(m)

(* performance.ts:270-274. *)
start(m) == tick([m EXCEPT !.isRunning = TRUE])

(* performance.ts:279-285. *)
stop(m) ==
    IF m.rafId # 0
    THEN [m EXCEPT !.isRunning = FALSE, !.pending = @ \ {m.rafId}, !.rafId = 0]
    ELSE [m EXCEPT !.isRunning = FALSE]

(* performance.ts:248-254. *)
addCallback(m, callback) ==
    LET added == [m EXCEPT !.callbacks = @ \cup {callback}]
    IN IF ~m.isRunning THEN start(added) ELSE added

(* performance.ts:259-265. *)
removeCallback(m, callback) ==
    LET removed == [m EXCEPT !.callbacks = @ \ {callback}]
    IN IF removed.callbacks = {} THEN stop(removed) ELSE removed

(* performance.ts:312-315. *)
destroy(m) == stop([m EXCEPT !.callbacks = {}])

(* CandlestickChart.tsx:440-464, as far as the manager goes:               *)
(* smoothIntervalRef is null when the manager is used, and the branch for  *)
(* the manager (lines 460-463) is empty.                                   *)
stopSmoothInterpolation(m) == m

-----------------------------------------------------------------------------
(*                              CrashChart                                 *)

(* part_006:15-19 and the literals of the tick handler. *)
TICKS_PER_CANDLE == 65
INTERPOLATION_SPEED == 15   \* in hundredths: .15
SNAP_DISTANCE == Fix(1, 10000)
COUNTDOWN_SECONDS == 5
MAX_CANDLES == 50
INITIAL_PRICE == Fix(1, 1)
MIN_PRICE == Fix(1, 100)
WICK_LIMIT == Fix(15, 1000)

(* part_006:67-73.  r and r2 are the two Math.random() draws. *)
generateCrashPointCC(r, r2) ==
    IF r < Fix(3, 10) THEN Fix(1, 2) + (r2 * 49) \div 100
    ELSE IF r < Fix(7, 10) THEN Fix(101, 100) + (r2 * 15) \div 10
    ELSE IF r < Fix(9, 10) THEN Fix(5, 2) + r2 * 5
    ELSE Fix(15, 2) + r2 * 15

(* A call of generateCrashPoint: the values Math.random() returned in it   *)
(* and the crash point it returned.                                        *)
CallCC(d) == [in |-> d, out |-> generateCrashPointCC(d[1], d[2])]

(* CandlestickChart.tsx:313-322 and part_006:243-248: the price step, with *)
(* momentum the sum of the trend, noise and spike terms the code draws.    *)
(* A price step without the floor. *)
PriceStep_NoFloor(price, momentum) == price + momentum

PriceStep(price, momentum) == Max(MIN_PRICE, price + momentum)

(* A crash condition that ignores on which side of 1.0 the crash point is. *)
CrashCondition_OneSided(cp, price) == price >= cp

(* part_006:251, CandlestickChart.tsx:626-627: the crash condition. *)
CrashCondition(cp, price) ==
    \/ cp < Fix(1, 1) /\ price <= cp
    \/ cp >= Fix(1, 1) /\ price >= cp

FlatCandleCC(p, n) == [open |-> p, high |-> p, low |-> p, close |-> p, ticks |-> n]
(* part_006:255-258: the collapse candle appended on crash. *)
CollapseCandleCC(newPrice) ==
    [open |-> newPrice, high |-> newPrice, low |-> 0, close |-> 0, ticks |-> 0]

Front(s) == SubSeq(s, 1, Len(s) - 1)
LastN(s, n) == IF Len(s) <= n THEN s ELSE SubSeq(s, Len(s) - n + 1, Len(s))

(* part_006:264-318: the setCandles updater of a non-crashing tick.  The   *)
(* animated* fields, read only by the canvas drawing code, are left out.   *)
UpdateCandlesCC(prev, newPrice) ==
    IF Len(prev) = 0 THEN <<FlatCandleCC(newPrice, 1)>>
    ELSE
      LET last == prev[Len(prev)]
          newTicks == last.ticks + 1
          bodyHigh == Max(last.open, newPrice)
          bodyLow == Min(last.open, newPrice)
          maxHigh == bodyHigh + WICK_LIMIT
          maxLow == bodyLow - WICK_LIMIT
          actualHigh == Min(Max(last.high, newPrice), maxHigh)
          actualLow == Max(Min(last.low, newPrice), maxLow)
          updated == [last EXCEPT !.close = newPrice, !.high = actualHigh,
                                  !.low = actualLow, !.ticks = newTicks]
      IN IF newTicks >= TICKS_PER_CANDLE
         THEN LastN(Front(prev) \o <<updated, FlatCandleCC(newPrice, 0)>>, MAX_CANDLES)
         ELSE Front(prev) \o <<updated>>

(* clearInterval / clearTimeout of one handle (0 is "no handle"). *)
ClearTimer(ts, id) == {t \in ts : t.id # id}

(* A cleanup of the game tick effect that leaves the interval running. *)
TickEffectCleanup_Skipped(ts) == ts

(* part_006:325: cleanup of the game tick effect. *)
TickEffectCleanup(ts) == ClearTimer(ts, tickEff.handle)
(* part_006:342: cleanup of the countdown effect. *)
CountdownEffectCleanup(ts) == ClearTimer(ts, cdEff.handle)

(* The passive effects of the last render, not yet run, are those whose    *)
(* dependencies differ from the ones of their last run (part_006:326,343). *)
TickEffPending == tickEff.deps # <<phase, crashPoint>>
CdEffPending == cdEff.deps # countdown
(* part_006:62: the effect that copies targetPrice to targetPriceRef. *)
RefEffPending == targetPriceRef # targetPrice
EffectsPendingCC == TickEffPending \/ CdEffPending \/ RefEffPending

Handles == [timers |-> timers, nextId |-> nextId, tickEff |-> tickEff, cdEff |-> cdEff,
            targetPriceRef |-> targetPriceRef]

(* part_006:237-326: the game tick effect run for the rendered state. *)
RunTickEffect(e) ==
    IF ~TickEffPending THEN e
    ELSE LET cleaned == TickEffectCleanup(e.timers)
             deps == <<phase, crashPoint>>
         IN IF phase # "running"
            THEN [e EXCEPT !.timers = cleaned,
                           !.tickEff = [deps |-> deps, handle |-> 0]]
            ELSE [e EXCEPT !.timers = cleaned \cup
                                {Timer(e.nextId, "tick", round, crashPoint)},
                           !.nextId = @ + 1,
                           !.tickEff = [deps |-> deps, handle |-> e.nextId]]

(* part_006:329-343: the countdown effect run for the rendered state. *)
RunCountdownEffect(e) ==
    IF ~CdEffPending THEN e
    ELSE LET cleaned == CountdownEffectCleanup(e.timers)
         IN IF countdown <= 0
            THEN [e EXCEPT !.timers = cleaned,
                           !.cdEff = [deps |-> countdown, handle |-> 0]]
            ELSE [e EXCEPT !.timers = cleaned \cup
                                {Timer(e.nextId, "countdown", round, 0)},
                           !.nextId = @ + 1,
                           !.cdEff = [deps |-> countdown, handle |-> e.nextId]]

(* The effects of the current render, flushed (in declaration order). *)
FlushCC == RunCountdownEffect(RunTickEffect([Handles EXCEPT !.targetPriceRef = targetPrice]))

SetHandles(e) ==
    /\ timers' = e.timers
    /\ nextId' = e.nextId
    /\ tickEff' = e.tickEff
    /\ cdEff' = e.cdEff
    /\ targetPriceRef' = e.targetPriceRef

(* A startGame that leaves the candle buffer of the last round in place. *)
startGame_KeepsCandles(newCrashPoint) ==
    /\ crashPoint' = newCrashPoint
    /\ targetPrice' = INITIAL_PRICE
    /\ displayPrice' = INITIAL_PRICE
    /\ phase' = "running"
    /\ countdown' = 0
    /\ candles' = candles
    /\ pub' = <<Snapshot(TRUE, INITIAL_PRICE, newCrashPoint)>>
    /\ round' = round + 1
    /\ crashes' = 0
    /\ noTickYet' = TRUE
    /\ UNCHANGED tickNo

(* part_006:76-91.  newCrashPoint is the value generateCrashPoint returned. *)
startGame(newCrashPoint) ==
    /\ crashPoint' = newCrashPoint
    /\ targetPrice' = INITIAL_PRICE
    /\ displayPrice' = INITIAL_PRICE
    /\ phase' = "running"
    /\ countdown' = 0
    /\ candles' = <<FlatCandleCC(INITIAL_PRICE, 0)>>
    /\ pub' = <<Snapshot(TRUE, INITIAL_PRICE, newCrashPoint)>>
    /\ round' = round + 1
    /\ crashes' = 0
    /\ noTickYet' = TRUE
    /\ UNCHANGED tickNo

(* part_006:346-349: the initial timeout fires and calls startGame. *)
StartTimerFiresFrom(D) ==
    /\ chart = "CrashChart" /\ mounted
    /\ \E t \in TimersOf("start") : \E d \in D :
         /\ round < MaxRounds
         /\ startGame(generateCrashPointCC(d[1], d[2]))
         /\ genCalls' = <<CallCC(d)>>
         /\ SetHandles([FlushCC EXCEPT !.timers = ClearTimer(@, t.id)])
         /\ lastStep' = [kind |-> "start", value |-> 0, id |-> t.id]
    /\ UNCHANGED <<chart, mounted, startHandle>>

StartTimerFires == StartTimerFiresFrom(RoundDrawsCC)

(* A crash branch that takes the phase to waiting instead of crashed. *)
CrashBranchCC_ToWaiting(t, e, newPrice) ==
    /\ phase' = "waiting"
    /\ pub' = <<Snapshot(FALSE, t.cp, t.cp)>>
    /\ candles' = Append(candles, CollapseCandleCC(newPrice))
    /\ SetHandles([e EXCEPT !.timers = @ \cup {Timer(e.nextId, "crashDelay", round, 0)},
                            !.nextId = @ + 1])
    /\ targetPrice' = t.cp
    /\ crashes' = crashes + 1

(* A crash branch that sets no timeout for the countdown. *)
CrashBranchCC_NoDelay(t, e, newPrice) ==
    /\ phase' = "crashed"
    /\ pub' = <<Snapshot(FALSE, t.cp, t.cp)>>
    /\ candles' = Append(candles, CollapseCandleCC(newPrice))
    /\ SetHandles(e)
    /\ targetPrice' = t.cp
    /\ crashes' = crashes + 1

(* part_006:251-261: the crash branch of the tick updater.  e holds the    *)
(* timers once the pending effects have run.                               *)
CrashBranchCC(t, e, newPrice) ==
    /\ phase' = "crashed"
    /\ pub' = <<Snapshot(FALSE, t.cp, t.cp)>>
    /\ candles' = Append(candles, CollapseCandleCC(newPrice))
    /\ SetHandles([e EXCEPT !.timers = @ \cup {Timer(e.nextId, "crashDelay", round, 0)},
                            !.nextId = @ + 1])
    /\ targetPrice' = t.cp
    /\ crashes' = crashes + 1

(* part_006:264-322: the other branch: candle update and snapshot. *)
StepBranchCC(t, e, newPrice) ==
    /\ candles' = UpdateCandlesCC(candles, newPrice)
    /\ pub' = <<Snapshot(TRUE, newPrice, t.cp)>>
    /\ targetPrice' = newPrice
    /\ SetHandles(e)
    /\ UNCHANGED <<phase, crashes>>

(* part_006:240-323: one firing of the tick interval t.  The updater reads *)
(* crashPoint and syncToBetting from the closure of the render in which    *)
(* the effect created the interval (t.cp).                                 *)
TickCC ==
    /\ chart = "CrashChart" /\ mounted
    /\ tickNo < MaxTicks
    /\ \E t \in TimersOf("tick") : \E m \in Momenta :
       LET newPrice == PriceStep(targetPrice, m)
       IN /\ lastStep' = [kind |-> "tick", value |-> newPrice, id |-> t.id]
          /\ tickNo' = tickNo + 1
          /\ noTickYet' = FALSE
          /\ IF CrashCondition(t.cp, newPrice)
             THEN CrashBranchCC(t, FlushCC, newPrice)
             ELSE StepBranchCC(t, FlushCC, newPrice)
    /\ UNCHANGED <<chart, mounted, crashPoint, countdown, round, startHandle>>

(* part_006:259: the 2 s timeout set on crash fires: setCountdown(5).  On  *)
(* an unmounted component the state update is dropped.                     *)
CrashDelayFiresCC ==
    /\ chart = "CrashChart"
    /\ \E t \in TimersOf("crashDelay") :
         /\ lastStep' = [kind |-> "crashDelay", value |-> 0, id |-> t.id]
         /\ IF mounted
            THEN /\ countdown' = COUNTDOWN_SECONDS
                 /\ SetHandles([FlushCC EXCEPT !.timers = ClearTimer(@, t.id)])
            ELSE /\ timers' = ClearTimer(timers, t.id)
                 /\ UNCHANGED <<countdown, nextId, tickEff, cdEff, targetPriceRef>>
    /\ pub' = <<>>
    /\ UNCHANGED <<chart, mounted, phase, targetPrice, crashPoint, candles,
                   round, tickNo, noTickYet, crashes, startHandle>>

(* part_006:332-340: one firing of the countdown interval. *)
CountdownFiresCC ==
    /\ chart = "CrashChart" /\ mounted
    /\ \E t \in TimersOf("countdown") :
         /\ lastStep' = [kind |-> "countdown", value |-> countdown, id |-> t.id]
         /\ SetHandles(FlushCC)
         /\ IF countdown <= 1
            THEN /\ round < MaxRounds
                 /\ \E d \in RoundDrawsCC :
                        /\ startGame(generateCrashPointCC(d[1], d[2]))
                        /\ genCalls' = <<CallCC(d)>>
            ELSE /\ countdown' = countdown - 1
                 /\ pub' = <<>>
                 /\ genCalls' = <<>>
                 /\ UNCHANGED <<phase, targetPrice, crashPoint, candles, displayPrice,
                                round, tickNo, noTickYet, crashes>>
    /\ UNCHANGED <<chart, mounted, startHandle>>

(* React runs the pending passive effects of the last render. *)
CommitEffectsCC ==
    /\ chart = "CrashChart" /\ mounted
    /\ EffectsPendingCC
    /\ SetHandles(FlushCC)
    /\ pub' = <<>>
    /\ lastStep' = [kind |-> "effects", value |-> 0, id |-> 0]
    /\ UNCHANGED <<chart, mounted, phase, targetPrice, crashPoint, countdown,
                   candles, round, tickNo, noTickYet, crashes, startHandle>>

(* part_006:325,342,348: unmounting runs the cleanup of every effect.  The *)
(* timeout of line 259 has no owner and is not cleared.                    *)
UnmountCC ==
    /\ chart = "CrashChart" /\ mounted
    /\ mounted' = FALSE
    /\ timers' = ClearTimer(CountdownEffectCleanup(TickEffectCleanup(timers)), startHandle)
    /\ tickEff' = [tickEff EXCEPT !.handle = 0]
    /\ cdEff' = [cdEff EXCEPT !.handle = 0]
    /\ startHandle' = 0
    /\ pub' = <<>>
    /\ lastStep' = [kind |-> "unmount", value |-> 0, id |-> 0]
    /\ UNCHANGED <<chart, nextId, phase, targetPrice, crashPoint, countdown,
                   candles, targetPriceRef, round, tickNo, noTickYet, crashes>>

Abs(x) == IF x < 0 THEN 0 - x ELSE x

(* An interpolation step twelve times the distance to the target. *)
Lerp_Overshoot(prev, target) ==
    LET diff == target - prev
    IN IF Abs(diff) < SNAP_DISTANCE THEN target
       ELSE prev + diff * 12

(* An interpolation step that never snaps to the target. *)
Lerp_NoSnap(prev, target) ==
    prev + ((target - prev) * INTERPOLATION_SPEED) \div 100

(* An interpolation step of half the distance to the target. *)
Lerp_HalfStep(prev, target) ==
    LET diff == target - prev
    IN IF Abs(diff) < SNAP_DISTANCE THEN target
       ELSE prev + (diff * 50) \div 100

(* part_006:111-115: the updater of setDisplayPrice. *)
Lerp(prev, target) ==
    LET diff == target - prev
    IN IF Abs(diff) < SNAP_DISTANCE THEN target
       ELSE prev + (diff * INTERPOLATION_SPEED) \div 100

(* A frame that writes the displayed price back to the price of the round. *)
RenderFrameCC_WritesTarget ==
    /\ chart = "CrashChart" /\ mounted
    /\ displayPrice' = Lerp(displayPrice, targetPriceRef)
    /\ targetPrice' = displayPrice'
    /\ IF displayPrice' # displayPrice
       THEN SetHandles(FlushCC)
       ELSE UNCHANGED <<timers, nextId, tickEff, cdEff, targetPriceRef>>
    /\ pub' = <<>>
    /\ lastStep' = [kind |-> "frame", value |-> displayPrice, id |-> 0]
    /\ UNCHANGED <<chart, mounted, phase, crashPoint, countdown, candles,
                   round, tickNo, noTickYet, crashes, startHandle>>

(* part_006:98-228: one animation frame of the render loop.  The updater   *)
(* reads targetPriceRef as it is when the frame runs; a changed display    *)
(* price renders the component, before which React runs pending effects.   *)
(* What the frame draws on the canvas is not part of the state.            *)
RenderFrameCC ==
    /\ chart = "CrashChart" /\ mounted
    /\ displayPrice' = Lerp(displayPrice, targetPriceRef)
    /\ IF displayPrice' # displayPrice
       THEN SetHandles(FlushCC)
       ELSE UNCHANGED <<timers, nextId, tickEff, cdEff, targetPriceRef>>
    /\ pub' = <<>>
    /\ lastStep' = [kind |-> "frame", value |-> displayPrice, id |-> 0]
    /\ UNCHANGED <<chart, mounted, phase, targetPrice, crashPoint, countdown, candles,
                   round, tickNo, noTickYet, crashes, startHandle>>

IdleGameState ==
    [isActive |-> FALSE, isPreparing |-> FALSE, multiplier |-> Fix(1, 1),
     hasCrashed |-> FALSE, crashPoint |-> 0, countdown |-> 0]
NoSync == [pending |-> FALSE, active |-> FALSE, close |-> 0, len |-> 0]
IdleCS ==
    /\ gameState = IdleGameState
    /\ chartData = <<>>
    /\ candleIntervalRef = 0
    /\ now = 0
    /\ syncEff = NoSync
    /\ currentPrice = Fix(1, 1)
    /\ animCallbacks = {}
    /\ testMode = FALSE
    /\ raf = (IF animCallbacks = {} THEN IdleRaf ELSE RunningRaf)
    /\ frameLoop = NoLoop

(* part_006:47-52, 346-349: the component after its first render and the   *)
(* first run of its effects.                                               *)
InitCC ==
    /\ chart = "CrashChart"
    /\ IdleCS
    /\ mounted = TRUE
    /\ phase = "waiting"
    /\ targetPrice = INITIAL_PRICE
    /\ crashPoint = 0
    /\ countdown = 0
    /\ candles = <<>>
    /\ displayPrice = INITIAL_PRICE
    /\ targetPriceRef = INITIAL_PRICE
    /\ timers = {Timer(1, "start", 0, 0)}
    /\ nextId = 2
    /\ startHandle = 1
    /\ tickEff = [deps |-> <<"waiting", 0>>, handle |-> 0]
    /\ cdEff = [deps |-> 0, handle |-> 0]
    /\ pub = <<>>
    /\ round = 0 /\ tickNo = 0 /\ noTickYet = TRUE /\ crashes = 0
    /\ lastStep = NoStep /\ aggCalls = <<>> /\ genCalls = <<>>

NextCC ==
    \/ StartTimerFires /\ UNCHANGED csVars /\ aggCalls' = <<>>
    \/ TickCC /\ UNCHANGED <<csVars, displayPrice>> /\ aggCalls' = <<>> /\ genCalls' = <<>>
    \/ CrashDelayFiresCC /\ UNCHANGED <<csVars, displayPrice>> /\ aggCalls' = <<>> /\ genCalls' = <<>>
    \/ CountdownFiresCC /\ UNCHANGED csVars /\ aggCalls' = <<>>
    \/ CommitEffectsCC /\ UNCHANGED <<csVars, displayPrice>> /\ aggCalls' = <<>> /\ genCalls' = <<>>
    \/ UnmountCC /\ UNCHANGED <<csVars, displayPrice>> /\ aggCalls' = <<>> /\ genCalls' = <<>>

SpecCC == InitCC /\ [][NextCC]_vars

-----------------------------------------------------------------------------
(*                           CandlestickChart                              *)

CANDLE_INTERVAL_MS == 3000
TEST_CANDLE_INTERVAL_MS == 500
TICK_INTERVAL_MS == 100
AGGREGATION_THRESHOLD == 30
MAX_HISTORY == 100
SCAN_FROM == 1000

Candle(o, h, l, c, tm) == [open |-> o, high |-> h, low |-> l, close |-> c, time |-> tm]
FlatCandle(p, tm) == Candle(p, p, p, p, tm)

(* CandlestickChart.tsx:59: [...candles].sort((a, b) => a.time - b.time),  *)
(* a stable insertion of each candle behind those not later than it.       *)
RECURSIVE SortByTime(_)
InsertByTime(c, sorted) ==
    LET k == Cardinality({i \in 1..Len(sorted) : sorted[i].time <= c.time})
    IN SubSeq(sorted, 1, k) \o <<c>> \o SubSeq(sorted, k + 1, Len(sorted))
SortByTime(cs) ==
    IF Len(cs) = 0 THEN <<>>
    ELSE InsertByTime(cs[Len(cs)], SortByTime(Front(cs)))

RECURSIVE MaxHigh(_)
MaxHigh(cs) == IF Len(cs) = 1 THEN cs[1].high ELSE Max(cs[Len(cs)].high, MaxHigh(Front(cs)))
RECURSIVE MinLow(_)
MinLow(cs) == IF Len(cs) = 1 THEN cs[1].low ELSE Min(cs[Len(cs)].low, MinLow(Front(cs)))

(* A wick limit of half the body, without the cap at 0.5% of the price. *)
MaxWickExtension_HalfBody(open, close) ==
    LET bodyRange == Max(open, close) - Min(open, close)
    IN IF bodyRange > 0 THEN bodyRange \div 2 ELSE (open + close) \div 2000

(* CandlestickChart.tsx:75-85.  bodyRange * 0.20 is bodyRange / 5,         *)
(* priceLevel * 0.005 is (open + close) / 400 and priceLevel * 0.001 is    *)
(* (open + close) / 2000; the prices used make the divisions exact.        *)
MaxWickExtension(open, close) ==
    LET bodyRange == Max(open, close) - Min(open, close)
    IN IF bodyRange > 0
       THEN Min(bodyRange \div 5, (open + close) \div 400)
       ELSE (open + close) \div 2000

(* CandlestickChart.tsx:50-103 (the empty array throws; it is never passed) *)
aggregateCandles(cs) ==
    IF Len(cs) = 1 THEN cs[1]
    ELSE LET sortedByTime == SortByTime(cs)
             open == sortedByTime[1].open
             close == sortedByTime[Len(sortedByTime)].close
             bodyHigh == Max(open, close)
             bodyLow == Min(open, close)
             maxWickExtension == MaxWickExtension(open, close)
             limitedHigh == Min(MaxHigh(sortedByTime), bodyHigh + maxWickExtension)
             limitedLow == Max(MinLow(sortedByTime), bodyLow - maxWickExtension)
         IN Candle(open, limitedHigh, limitedLow, close, sortedByTime[1].time)

(* A generator whose top range is one wider. *)
generateCrashPoint_Wide(random, sub, r3) ==
    IF random < Fix(8, 10)
    THEN IF sub < Fix(1, 10) THEN Fix(1, 100) + (r3 * 19) \div 100
         ELSE IF sub < Fix(3, 10) THEN Fix(2, 10) + (r3 * 30) \div 100
         ELSE Fix(5, 10) + (r3 * 49) \div 100
    ELSE IF sub < Fix(4, 10) THEN Fix(101, 100) + (r3 * 99) \div 100
         ELSE IF sub < Fix(7, 10) THEN Fix(2, 1) + r3 * 3
         ELSE IF sub < Fix(9, 10) THEN Fix(5, 1) + r3 * 5
         ELSE Fix(10, 1) + r3 * 16

(* A compaction that never merges. *)
performCandleAggregation_Never(data) == data

(* A compaction that merges from four candles on. *)
performCandleAggregation_Eager(data) ==
    IF Len(data) < 4 THEN data
    ELSE <<aggregateCandles(SubSeq(data, 1, 3))>> \o SubSeq(data, 4, Len(data))

(* A compaction that merges two candles instead of three. *)
performCandleAggregation_FirstTwo(data) ==
    IF Len(data) < AGGREGATION_THRESHOLD THEN data
    ELSE <<aggregateCandles(SubSeq(data, 1, 2))>> \o SubSeq(data, 3, Len(data))

(* CandlestickChart.tsx:105-131 *)
performCandleAggregation(data) ==
    IF Len(data) < AGGREGATION_THRESHOLD THEN data
    ELSE <<aggregateCandles(SubSeq(data, 1, 3))>> \o SubSeq(data, 4, Len(data))

(* CandlestickChart.tsx:293-310.  random, sub and r3 are the draws. *)
generateCrashPoint(random, sub, r3) ==
    IF random < Fix(8, 10)
    THEN IF sub < Fix(1, 10) THEN Fix(1, 100) + (r3 * 19) \div 100
         ELSE IF sub < Fix(3, 10) THEN Fix(2, 10) + (r3 * 30) \div 100
         ELSE Fix(5, 10) + (r3 * 49) \div 100
    ELSE IF sub < Fix(4, 10) THEN Fix(101, 100) + (r3 * 99) \div 100
         ELSE IF sub < Fix(7, 10) THEN Fix(2, 1) + r3 * 3
         ELSE IF sub < Fix(9, 10) THEN Fix(5, 1) + r3 * 5
         ELSE Fix(10, 1) + r3 * 15

CallCS(d) == [in |-> d, out |-> generateCrashPoint(d[1], d[2], d[3])]

(* startNewGame is the function of the first render (the auto-start effect *)
(* has no dependencies, and the restart timeout of line 720 calls the      *)
(* startNewGame of its own lexical scope), so chartData and testMode read  *)
(* inside it and its callbacks are the values of the first render.         *)
ClosureChartData == <<>>
ClosureTestMode == FALSE

(* An update of the open candle that leaves its high and low alone. *)
UpdatedLastCandle_CloseOnly(lastCandle, targetPriceValue) ==
    [lastCandle EXCEPT !.close = targetPriceValue]

(* CandlestickChart.tsx:570-575 and 605-610: the open candle takes the     *)
(* tick's price.                                                           *)
UpdatedLastCandle(lastCandle, targetPriceValue) ==
    [lastCandle EXCEPT !.close = targetPriceValue,
                       !.high = Max(lastCandle.high, targetPriceValue),
                       !.low = Min(lastCandle.low, targetPriceValue)]

(* CandlestickChart.tsx:567-568: a new candle is due. *)
CandleDue(prev, tnow) ==
    LET candleInterval == IF ClosureTestMode THEN TEST_CANDLE_INTERVAL_MS
                          ELSE CANDLE_INTERVAL_MS
    IN tnow - prev[Len(prev)].time >= candleInterval

(* A finalization that opens the new candle at the close before the tick. *)
FinalizedBuffer_OpensAtOldClose(prev, targetPriceValue, tnow) ==
    Front(prev) \o <<UpdatedLastCandle(prev[Len(prev)], targetPriceValue),
                     FlatCandle(prev[Len(prev)].close, tnow)>>

(* CandlestickChart.tsx:588: the buffer with the open candle finalized and *)
(* the new candle behind it.                                               *)
FinalizedBuffer(prev, targetPriceValue, tnow) ==
    Front(prev) \o <<UpdatedLastCandle(prev[Len(prev)], targetPriceValue),
                     FlatCandle(targetPriceValue, tnow)>>

(* CandlestickChart.tsx:557-623: the setChartData updater of a tick. *)
TickUpdater(prev, targetPriceValue, tnow) ==
    IF Len(prev) = 0 THEN prev   \* lastCandle is undefined: the updater throws
    ELSE IF CandleDue(prev, tnow)
    THEN LastN(performCandleAggregation(FinalizedBuffer(prev, targetPriceValue, tnow)),
               MAX_HISTORY)
    ELSE Front(prev) \o <<UpdatedLastCandle(prev[Len(prev)], targetPriceValue)>>

(* CandlestickChart.tsx:638-657: the buffer with the candle the crash      *)
(* handler finalizes and the crash candle in place of the open candle.     *)
CrashBuffer(prev, targetPriceValue, tnow) ==
    LET cd == ClosureChartData
        lastPrice == IF Len(cd) > 0 THEN cd[Len(cd)].close ELSE targetPriceValue
        finalizedCurrentCandle ==
            IF Len(cd) > 0 THEN [cd[Len(cd)] EXCEPT !.close = lastPrice]
            ELSE FlatCandle(targetPriceValue, tnow)
        crashCandle == Candle(lastPrice, lastPrice, 0, 0, tnow + 100)
    IN Front(prev) \o <<finalizedCurrentCandle, crashCandle>>

(* CandlestickChart.tsx:656-661: the setChartData updater of the crash. *)
CrashUpdater(prev, targetPriceValue, tnow) ==
    performCandleAggregation(CrashBuffer(prev, targetPriceValue, tnow))

(* A call of performCandleAggregation: its argument and its result. *)
Call(data) == [in |-> data, out |-> performCandleAggregation(data)]

(* CandlestickChart.tsx:260-290: what updateGameState publishes. *)
SnapOf(gs) == Snapshot(gs.isActive, gs.multiplier, gs.crashPoint)

(* CandlestickChart.tsx:1536-1547: the [chartData] effect of the last      *)
(* render, run before the next one: its updateGameState is queued behind   *)
(* those of the callback that causes the render.                           *)
SyncFires == syncEff.pending /\ syncEff.active /\ syncEff.len > 0
SyncState(gs) == IF SyncFires THEN [gs EXCEPT !.multiplier = syncEff.close] ELSE gs
SyncPub(gs) == IF SyncFires THEN <<SnapOf(SyncState(gs))>> ELSE <<>>
(* The effect scheduled by a render that committed chart data cd. *)
SyncOf(cd, gs) ==
    [pending |-> TRUE, active |-> gs.isActive,
     close |-> IF Len(cd) > 0 THEN cd[Len(cd)].close ELSE 0, len |-> Len(cd)]

(* CandlestickChart.tsx:467-732.  ts is the set of alive timers when the   *)
(* caller's timer has fired; newCrashPoint is what generateCrashPoint      *)
(* returned.  State updates of an unmounted component are dropped.         *)
startNewGame(ts, newCrashPoint) ==
    LET cleared == ClearTimer(ts, candleIntervalRef)
        allIntervals == nextId
        scanned == {t \in cleared \cup {Timer(allIntervals, "noop", round + 1, 0)} :
                        t.id \notin SCAN_FROM..allIntervals}
        firstCandle == Timer(nextId + 1, "firstCandle", round + 1, 0)
        tickTimer == TimerX(nextId + 2, "tick", round + 1, newCrashPoint, INITIAL_PRICE, 0)
        reset == [IdleGameState EXCEPT !.isActive = TRUE, !.multiplier = Fix(1, 1)]
        priced == [reset EXCEPT !.multiplier = INITIAL_PRICE]
        started == [priced EXCEPT !.crashPoint = newCrashPoint]
        stopped == stopSmoothInterpolation(ManagerOf(animCallbacks, raf))
        restarted == addCallback(stopped, round + 1)
    IN /\ timers' = scanned \cup {firstCandle, tickTimer}
       /\ nextId' = nextId + 3
       /\ candleIntervalRef' = tickTimer.id
       /\ IF mounted
          THEN /\ gameState' = SyncState(started)
               /\ chartData' = <<>>
               /\ currentPrice' = Fix(1, 1)
               /\ animCallbacks' = restarted.callbacks
               /\ raf' = RafOf(restarted)
               /\ pub' = <<SnapOf(reset), SnapOf(priced), SnapOf(started)>>
                            \o SyncPub(started)
               /\ syncEff' = SyncOf(<<>>, SyncState(started))
          ELSE /\ pub' = <<>>
               /\ UNCHANGED <<gameState, chartData, syncEff, currentPrice, animCallbacks, raf>>
       /\ round' = round + 1
       /\ crashes' = 0
       /\ noTickYet' = TRUE
       /\ UNCHANGED <<chart, mounted, now, tickNo>>

(* CandlestickChart.tsx:735-738: the auto-start timeout fires. *)
AutoStartFiresFrom(D) ==
    /\ chart = "CandlestickChart"
    /\ round < MaxRounds
    /\ \E t \in TimersOf("autoStart") : \E d \in D :
         /\ startNewGame(ClearTimer(timers, t.id), generateCrashPoint(d[1], d[2], d[3]))
         /\ genCalls' = <<CallCS(d)>>
         /\ lastStep' = [kind |-> "start", value |-> 0, id |-> t.id]

AutoStartFires == AutoStartFiresFrom(RoundDrawsCS)

(* CandlestickChart.tsx:720-722: the restart timeout fires. *)
RestartFires ==
    /\ chart = "CandlestickChart"
    /\ round < MaxRounds
    /\ \E t \in TimersOf("restart") : \E d \in RoundDrawsCS :
         /\ startNewGame(ClearTimer(timers, t.id), generateCrashPoint(d[1], d[2], d[3]))
         /\ genCalls' = <<CallCS(d)>>
         /\ lastStep' = [kind |-> "start", value |-> 0, id |-> t.id]

(* CandlestickChart.tsx:530-541: the first-candle timeout fires, 100 ms    *)
(* after startNewGame ran.                                                 *)
FirstCandleFires ==
    /\ chart = "CandlestickChart"
    /\ \E t \in TimersOf("firstCandle") :
         /\ timers' = ClearTimer(timers, t.id)
         /\ lastStep' = [kind |-> "firstCandle", value |-> 0, id |-> t.id]
         /\ IF mounted
            THEN /\ chartData' = <<FlatCandle(INITIAL_PRICE, now + TICK_INTERVAL_MS)>>
                 /\ gameState' = SyncState(gameState)
                 /\ pub' = SyncPub(gameState)
                 /\ syncEff' = SyncOf(chartData', gameState')
            ELSE /\ pub' = <<>>
                 /\ UNCHANGED <<gameState, chartData, syncEff>>
    /\ UNCHANGED <<chart, mounted, nextId, candleIntervalRef, now, round, tickNo, noTickYet, crashes>>

(* CandlestickChart.tsx:664-682: the crashed game state. *)
CrashedState(gs, newCrashPoint) ==
    [gs EXCEPT !.isActive = FALSE, !.isPreparing = FALSE, !.hasCrashed = TRUE,
               !.multiplier = newCrashPoint, !.crashPoint = newCrashPoint]

(* Timers that fire in any order. *)
FirstCandleDue_AnyOrder(t) == FALSE

(* CandlestickChart.tsx:530-550: the first-candle timeout of the round of   *)
(* tick interval t has yet to fire.  startNewGame registers it before the  *)
(* interval, with the same delay of 100 ms, and timers of one delay fire   *)
(* in the order of their registration.                                     *)
FirstCandleDue(t) == \E f \in TimersOf("firstCandle") : f.round = t.round

(* CandlestickChart.tsx:550-731: one firing of the tick interval t.  A     *)
(* timeout registered earlier with the same delay fires first, so the      *)
(* first-candle timeout of the round precedes its first tick.  The render  *)
(* processes the hooks in declaration order: the gameState queue (the      *)
(* crash update, then the pending [chartData] effect) before the chartData *)
(* queue, whose tick updater queues the multiplier update of lines 597-600 *)
(* and 616-619 for the pass that follows.                                  *)
TickCS ==
    /\ chart = "CandlestickChart"
    /\ tickNo < MaxTicks
    /\ \E t \in TimersOf("tick") : \E m \in Momenta :
       LET targetPriceValue == PriceStep(t.tpv, m)
           tnow == now + TICK_INTERVAL_MS
           crash == CrashCondition(t.cp, targetPriceValue)
           stepped == (timers \ {t}) \cup {[t EXCEPT !.tpv = targetPriceValue]}
           crashed == IF crash THEN CrashedState(gameState, t.cp) ELSE gameState
           synced == SyncState(crashed)
           ticked == [synced EXCEPT !.multiplier = targetPriceValue]
           afterTick == TickUpdater(chartData, targetPriceValue, tnow)
       IN /\ ~FirstCandleDue(t)
          /\ now' = tnow
          /\ tickNo' = tickNo + 1
          /\ noTickYet' = FALSE
          /\ lastStep' = [kind |-> "tick", value |-> targetPriceValue, id |-> t.id]
          /\ IF crash
             THEN /\ timers' = ClearTimer(stepped, candleIntervalRef)
                                 \cup {Timer(nextId, "crashDelay", t.round, 0)}
                  /\ nextId' = nextId + 1
                  /\ candleIntervalRef' = 0
                  /\ crashes' = crashes + 1
             ELSE /\ timers' = stepped
                  /\ UNCHANGED <<nextId, candleIntervalRef, crashes>>
          /\ IF mounted
             THEN /\ gameState' = ticked
                  /\ pub' = (IF crash THEN <<SnapOf(crashed)>> ELSE <<>>)
                               \o SyncPub(crashed) \o <<SnapOf(ticked)>>
                  /\ chartData' = IF crash
                                  THEN CrashUpdater(afterTick, targetPriceValue, tnow)
                                  ELSE afterTick
                  /\ syncEff' = SyncOf(chartData', gameState')
                  /\ aggCalls' =
                        (IF Len(chartData) > 0 /\ CandleDue(chartData, tnow)
                         THEN <<Call(FinalizedBuffer(chartData, targetPriceValue, tnow))>>
                         ELSE <<>>)
                        \o (IF crash
                            THEN <<Call(CrashBuffer(afterTick, targetPriceValue, tnow))>>
                            ELSE <<>>)
             ELSE /\ pub' = <<>>
                  /\ aggCalls' = <<>>
                  /\ UNCHANGED <<gameState, chartData, syncEff>>
    /\ UNCHANGED <<chart, mounted, round>>

(* CandlestickChart.tsx:685-729: the 2 s timeout set on crash fires and    *)
(* creates the fade-out and the countdown interval.                        *)
CrashDelayFiresCS ==
    /\ chart = "CandlestickChart"
    /\ \E t \in TimersOf("crashDelay") :
       LET preparing == [gameState EXCEPT !.countdown = COUNTDOWN_SECONDS,
                                          !.isPreparing = TRUE]
           fadeOutEffect == Timer(nextId, "fadeOut", t.round, 0)
           countdownInterval == TimerX(nextId + 1, "countdown", t.round, 0, 0, nextId)
       IN /\ timers' = ClearTimer(timers, t.id) \cup {fadeOutEffect, countdownInterval}
          /\ nextId' = nextId + 2
          /\ lastStep' = [kind |-> "crashDelay", value |-> 0, id |-> t.id]
          /\ IF mounted
             THEN /\ gameState' = SyncState(preparing)
                  /\ pub' = <<SnapOf(preparing)>> \o SyncPub(preparing)
                  /\ syncEff' = NoSync
             ELSE /\ pub' = <<>>
                  /\ UNCHANGED <<gameState, syncEff>>
    /\ UNCHANGED <<chart, mounted, chartData, candleIntervalRef, now, round, tickNo, noTickYet, crashes>>

(* CandlestickChart.tsx:694-704: one firing of the fade-out interval.  The *)
(* updater, and the clearInterval in it, run only in a render.             *)
FadeOutFires ==
    /\ chart = "CandlestickChart" /\ mounted
    /\ \E t \in TimersOf("fadeOut") :
         /\ lastStep' = [kind |-> "fadeOut", value |-> Len(chartData), id |-> t.id]
         /\ IF Len(chartData) > 0
            THEN /\ chartData' = Front(chartData)
                 /\ UNCHANGED timers
            ELSE /\ chartData' = <<>>
                 /\ timers' = ClearTimer(timers, t.id)
         /\ gameState' = SyncState(gameState)
         /\ pub' = SyncPub(gameState)
         /\ syncEff' = SyncOf(chartData', gameState')
    /\ UNCHANGED <<chart, mounted, nextId, candleIntervalRef, now, round, tickNo, noTickYet, crashes>>

(* CandlestickChart.tsx:706-728: one firing of the countdown interval t;   *)
(* t.peer is the fade-out interval created with it.                        *)
CountdownFiresCS ==
    /\ chart = "CandlestickChart" /\ mounted
    /\ \E t \in TimersOf("countdown") :
       LET resetState == [gameState EXCEPT !.hasCrashed = FALSE, !.countdown = 0]
           counted == IF gameState.countdown <= 1 THEN resetState
                      ELSE [gameState EXCEPT !.countdown = @ - 1]
       IN /\ lastStep' = [kind |-> "countdown", value |-> gameState.countdown, id |-> t.id]
          /\ IF gameState.countdown <= 1
             THEN /\ timers' = ClearTimer(ClearTimer(timers, t.id), t.peer)
                                 \cup {Timer(nextId, "restart", t.round, 0)}
                  /\ nextId' = nextId + 1
             ELSE UNCHANGED <<timers, nextId>>
          /\ gameState' = SyncState(counted)
          /\ pub' = <<SnapOf(counted)>> \o SyncPub(counted)
          /\ syncEff' = NoSync
    /\ UNCHANGED <<chart, mounted, chartData, candleIntervalRef, now, round, tickNo, noTickYet, crashes>>

(* CandlestickChart.tsx:1536-1547: React runs the pending [chartData]      *)
(* effect of the last render.                                              *)
SyncEffectCS ==
    /\ chart = "CandlestickChart" /\ mounted
    /\ syncEff.pending
    /\ gameState' = SyncState(gameState)
    /\ pub' = SyncPub(gameState)
    /\ syncEff' = NoSync
    /\ lastStep' = [kind |-> "effects", value |-> 0, id |-> 0]
    /\ UNCHANGED <<chart, mounted, timers, nextId, chartData, candleIntervalRef, now,
                   round, tickNo, noTickYet, crashes>>

(* The targetPrice the closure of animatePrice holds: startNewGame, and    *)
(* with it startSmoothInterpolation, is the function of the first render   *)
(* (lines 155, 735-738).  The same holds for smoothState, whose            *)
(* animationStartTime is 0: the progress passed to subpixelInterpolate is  *)
(* 0 and the eased value is the previous price.                            *)
ClosureTargetPrice == Fix(1, 1)

(* CandlestickChart.tsx:379-416: the updater of setCurrentPrice. *)
animatePrice(prev) ==
    LET difference == ClosureTargetPrice - prev
        easedValue == prev + (ClosureTargetPrice - prev) * 0
    IN IF Abs(difference) < SNAP_DISTANCE THEN ClosureTargetPrice ELSE easedValue

(* performance.ts:285-307: one tick of the AnimationFrameManager, which    *)
(* invokes every registered callback (CandlestickChart.tsx:351-419).  The  *)
(* manager keeps ticking after the component has unmounted (line 251       *)
(* drops the reference without destroy()).  The render the callbacks cause *)
(* runs the pending [chartData] effect first.                              *)
AnimationFrameCS ==
    /\ chart = "CandlestickChart"
    /\ animCallbacks # {}
    /\ \E r \in raf.pending :
         raf' = RafOf(tick([ManagerOf(animCallbacks, raf) EXCEPT !.pending = @ \ {r}]))
    /\ lastStep' = [kind |-> "frame", value |-> Cardinality(animCallbacks), id |-> 0]
    /\ IF mounted
       THEN /\ currentPrice' = animatePrice(currentPrice)
            /\ gameState' = SyncState(gameState)
            /\ pub' = SyncPub(gameState)
            /\ syncEff' = NoSync
       ELSE /\ pub' = <<>>
            /\ UNCHANGED <<currentPrice, gameState, syncEff>>
    /\ UNCHANGED <<chart, mounted, timers, nextId, chartData, animCallbacks,
                   candleIntervalRef, now, round, tickNo, noTickYet, crashes>>

(* CandlestickChart.tsx:1581-1588: a click on the test mode button.  The   *)
(* render it causes runs the pending [chartData] effect first.  The tick   *)
(* callback reads the testMode of its closure (ClosureTestMode), not this  *)
(* state.                                                                  *)
ToggleTestMode ==
    /\ chart = "CandlestickChart" /\ mounted
    /\ testMode' = ~testMode
    /\ gameState' = SyncState(gameState)
    /\ pub' = SyncPub(gameState)
    /\ syncEff' = NoSync
    /\ lastStep' = [kind |-> "toggle", value |-> 0, id |-> 0]
    /\ UNCHANGED <<chart, mounted, timers, nextId, chartData, currentPrice, animCallbacks,
                   candleIntervalRef, now, round, tickNo, noTickYet, crashes>>

(* CandlestickChart.tsx:740-745: the cleanup of the auto-start effect, the *)
(* only cleanup that touches the round's timers.                           *)
UnmountCS ==
    /\ chart = "CandlestickChart" /\ mounted
    /\ mounted' = FALSE
    /\ timers' = {t \in ClearTimer(timers, candleIntervalRef) : t.kind # "autoStart"}
    /\ syncEff' = NoSync
    /\ pub' = <<>>
    /\ lastStep' = [kind |-> "unmount", value |-> 0, id |-> 0]
    /\ UNCHANGED <<chart, nextId, gameState, chartData, candleIntervalRef, now,
                   round, tickNo, noTickYet, crashes>>

IdleCC ==
    /\ phase = "waiting"
    /\ targetPrice = INITIAL_PRICE
    /\ crashPoint = 0
    /\ countdown = 0
    /\ candles = <<>>
    /\ displayPrice = INITIAL_PRICE
    /\ targetPriceRef = INITIAL_PRICE
    /\ startHandle = 0
    /\ tickEff = [deps |-> <<"waiting", 0>>, handle |-> 0]
    /\ cdEff = [deps |-> 0, handle |-> 0]

(* Handles of the timers the page created before the chart mounted: the    *)
(* ids a browser hands out grow from 1.                                    *)
FirstIds == {1, SCAN_FROM - 4}

(* CandlestickChart.tsx:138-171, 735-738: the component after its first    *)
(* render and the first run of its effects.                                *)
InitCS ==
    /\ chart = "CandlestickChart"
    /\ IdleCC
    /\ mounted = TRUE
    /\ gameState = IdleGameState
    /\ chartData = <<>>
    /\ candleIntervalRef = 0
    /\ now = 0
    /\ syncEff = NoSync
    /\ currentPrice = Fix(1, 1)
    /\ animCallbacks = {}
    /\ testMode = FALSE
    /\ raf = (IF animCallbacks = {} THEN IdleRaf ELSE RunningRaf)
    /\ frameLoop = NoLoop
    /\ \E id \in FirstIds :
         /\ timers = {Timer(id, "autoStart", 0, 0)}
         /\ nextId = id + 1
    /\ pub = <<>>
    /\ round = 0 /\ tickNo = 0 /\ noTickYet = TRUE /\ crashes = 0
    /\ lastStep = NoStep /\ aggCalls = <<>> /\ genCalls = <<>>

NextCS ==
    \/ AutoStartFires /\ UNCHANGED <<ccVars, testMode, frameLoop>> /\ aggCalls' = <<>>
    \/ RestartFires /\ UNCHANGED <<ccVars, testMode, frameLoop>> /\ aggCalls' = <<>>
    \/ FirstCandleFires /\ UNCHANGED <<ccVars, currentPrice, animCallbacks, testMode, raf, frameLoop>>
         /\ aggCalls' = <<>> /\ genCalls' = <<>>
    \/ TickCS /\ UNCHANGED <<ccVars, currentPrice, animCallbacks, testMode, raf, frameLoop>> /\ genCalls' = <<>>
    \/ CrashDelayFiresCS /\ UNCHANGED <<ccVars, currentPrice, animCallbacks, testMode, raf, frameLoop>>
         /\ aggCalls' = <<>> /\ genCalls' = <<>>
    \/ FadeOutFires /\ UNCHANGED <<ccVars, currentPrice, animCallbacks, testMode, raf, frameLoop>>
         /\ aggCalls' = <<>> /\ genCalls' = <<>>
    \/ CountdownFiresCS /\ UNCHANGED <<ccVars, currentPrice, animCallbacks, testMode, raf, frameLoop>>
         /\ aggCalls' = <<>> /\ genCalls' = <<>>
    \/ SyncEffectCS /\ UNCHANGED <<ccVars, currentPrice, animCallbacks, testMode, raf, frameLoop>>
         /\ aggCalls' = <<>> /\ genCalls' = <<>>
    \/ UnmountCS /\ UNCHANGED <<ccVars, currentPrice, animCallbacks, testMode, raf, frameLoop>>
         /\ aggCalls' = <<>> /\ genCalls' = <<>>

SpecCS == InitCS /\ [][NextCS]_vars

-----------------------------------------------------------------------------
(*                     Rounds that have run for long                       *)

(* Candle prices and wicks (above the body, below the body) of the buffers *)
(* a long round starts from.                                               *)
Levels == {Fix(1, 1), Fix(11, 10)}
WickPairs == {<<0, 0>>, <<Fix(5, 10000), Fix(5, 10000)>>, <<Fix(1, 10), Fix(1, 10)>>}
(* The crash point of a long round: far above every price, or 0.941. *)
LongCrashPoints == {generateCrashPoint(Fix(9, 10), Fix(9, 10), Fix(9, 10)),
                    generateCrashPoint(Fix(1, 10), Fix(1, 2), Fix(9, 10))}
BufferLengths == {3, AGGREGATION_THRESHOLD - 2, AGGREGATION_THRESHOLD - 1}

Body(o, c, w, tm) == Candle(o, Max(o, c) + w[1], Min(o, c) - w[2], c, tm)
(* The k-th candle of a round: one every CANDLE_INTERVAL_MS from the first *)
(* candle, which the timeout of line 530 creates 100 ms into the round.    *)
TimeOf(k) == TICK_INTERVAL_MS + (k - 1) * CANDLE_INTERVAL_MS
(* n candles, each opening at the close of the one before: three drawn     *)
(* candles, then candles alternating between two prices.                   *)
LongBuffer(o, c, w, n) ==
    [k \in 1..n |->
        IF k = 1 THEN Body(o, c[1], w[1], TimeOf(1))
        ELSE IF k <= 3 THEN Body(c[k - 1], c[k], w[k], TimeOf(k))
        ELSE IF (k - 4) % 2 = 0 THEN Body(c[3], c[3] + Fix(1, 10), <<0, 0>>, TimeOf(k))
        ELSE Body(c[3] + Fix(1, 10), c[3], <<0, 0>>, TimeOf(k))]

(* CandlestickChart in a running round whose next tick is due one candle   *)
(* interval after the open candle was created.                             *)
InitLongCS ==
    /\ chart = "CandlestickChart"
    /\ IdleCC
    /\ mounted = TRUE
    /\ \E o \in Levels, c \in [1..3 -> Levels], w \in [1..3 -> WickPairs],
          n \in BufferLengths :
         /\ chartData = LongBuffer(o, c, w, n)
         /\ now = TimeOf(n) + CANDLE_INTERVAL_MS - TICK_INTERVAL_MS
    /\ \E cp \in LongCrashPoints :
         /\ gameState = [IdleGameState EXCEPT !.isActive = TRUE,
                             !.multiplier = chartData[Len(chartData)].close,
                             !.crashPoint = cp]
         /\ timers = {Timer(1, "noop", 1, 0),
                      TimerX(3, "tick", 1, cp, chartData[Len(chartData)].close, 0)}
    /\ nextId = 4
    /\ candleIntervalRef = 3
    /\ syncEff = NoSync
    /\ currentPrice = Fix(1, 1)
    /\ animCallbacks = {1}
    /\ testMode = FALSE
    /\ raf = (IF animCallbacks = {} THEN IdleRaf ELSE RunningRaf)
    /\ frameLoop = NoLoop
    /\ pub = <<>>
    /\ round = 1 /\ tickNo = MaxTicks - 2 /\ noTickYet = FALSE /\ crashes = 0
    /\ lastStep = NoStep /\ aggCalls = <<>> /\ genCalls = <<>>

LongCrashPointsCC == {generateCrashPointCC(Fix(9, 10), Fix(9, 10)),
                      generateCrashPointCC(Fix(1, 10), Fix(9, 10))}
BufferLengthsCC == {2, MAX_CANDLES - 1, MAX_CANDLES}
WickPairsCC == {<<0, 0>>, <<WICK_LIMIT, WICK_LIMIT>>, <<0, WICK_LIMIT>>}

BodyCC(o, c, w, n) ==
    [open |-> o, high |-> Max(o, c) + w[1], low |-> Min(o, c) - w[2], close |-> c,
     ticks |-> n]
(* n candles, each opening at the close of the one before and all but the  *)
(* last finalized; the last one, from o to c, has taken ticks ticks.       *)
LongBufferCC(o, c, w, ticks, n) ==
    [k \in 1..n |->
        IF k = n THEN BodyCC(o, c, w, ticks)
        ELSE IF (n - k) % 2 = 1 THEN BodyCC(o + Fix(1, 10), o, <<0, 0>>, TICKS_PER_CANDLE)
        ELSE BodyCC(o, o + Fix(1, 10), <<0, 0>>, TICKS_PER_CANDLE)]

(* CrashChart in a running round whose open candle is one or two ticks     *)
(* short of TICKS_PER_CANDLE.                                              *)
InitLongCC ==
    /\ chart = "CrashChart"
    /\ IdleCS
    /\ mounted = TRUE
    /\ phase = "running"
    /\ crashPoint \in LongCrashPointsCC
    /\ countdown = 0
    /\ \E o \in Levels, c \in Levels, w \in WickPairsCC, n \in BufferLengthsCC,
          ticks \in {TICKS_PER_CANDLE - 2, TICKS_PER_CANDLE - 1} :
         candles = LongBufferCC(o, c, w, ticks, n)
    /\ targetPrice = candles[Len(candles)].close
    /\ displayPrice = targetPrice
    /\ targetPriceRef = targetPrice
    /\ timers = {Timer(2, "tick", 1, crashPoint)}
    /\ nextId = 3
    /\ startHandle = 1
    /\ tickEff = [deps |-> <<"running", crashPoint>>, handle |-> 2]
    /\ cdEff = [deps |-> 0, handle |-> 0]
    /\ pub = <<>>
    /\ round = 1 /\ tickNo = MaxTicks - 2 /\ noTickYet = FALSE /\ crashes = 0
    /\ lastStep = NoStep /\ aggCalls = <<>> /\ genCalls = <<>>

(* The crash point and the running price of a round that has fallen close *)
(* to the floor of the price step: crash points 0.01 and 0.105, the two    *)
(* ends of the lowest range of generateCrashPoint that the scales reach.   *)
LowRounds ==
    {r \in {generateCrashPoint(0, 0, 0), generateCrashPoint(0, 0, Fix(1, 2))}
            \X {Fix(5, 100), Fix(15, 100)} : r[2] > r[1]}

(* CandlestickChart in a running round whose price has fallen from 1.0 to  *)
(* r[2]: one finalized candle and the open candle, two ticks old.          *)
InitLowCS ==
    /\ chart = "CandlestickChart"
    /\ IdleCC
    /\ mounted = TRUE
    /\ \E r \in LowRounds :
         /\ chartData = <<Body(INITIAL_PRICE, r[2] + Fix(1, 10), <<0, 0>>, TimeOf(1)),
                          Body(r[2] + Fix(1, 10), r[2], <<0, 0>>, TimeOf(2))>>
         /\ gameState = [IdleGameState EXCEPT !.isActive = TRUE,
                             !.multiplier = r[2], !.crashPoint = r[1]]
         /\ timers = {Timer(1, "noop", 1, 0), TimerX(3, "tick", 1, r[1], r[2], 0)}
    /\ now = TimeOf(2) + 2 * TICK_INTERVAL_MS
    /\ nextId = 4
    /\ candleIntervalRef = 3
    /\ syncEff = NoSync
    /\ currentPrice = Fix(1, 1)
    /\ animCallbacks = {1}
    /\ testMode = FALSE
    /\ raf = (IF animCallbacks = {} THEN IdleRaf ELSE RunningRaf)
    /\ frameLoop = NoLoop
    /\ pub = <<>>
    /\ round = 1 /\ tickNo = MaxTicks - 2 /\ noTickYet = FALSE /\ crashes = 0
    /\ lastStep = NoStep /\ aggCalls = <<>> /\ genCalls = <<>>

-----------------------------------------------------------------------------
Init == InitCC \/ InitCS \/ InitLongCC \/ InitLongCS \/ InitLowCS
Next == NextCC \/ NextCS
Spec == Init /\ [][Next]_vars

-----------------------------------------------------------------------------
(*                      The test mode button                               *)
(* The rounds of CandlestickChart with clicks on the test mode button.     *)
ToggleStep ==
    ToggleTestMode /\ UNCHANGED <<ccVars, raf, frameLoop>> /\ aggCalls' = <<>> /\ genCalls' = <<>>
NextTestMode == NextCS \/ ToggleStep
SpecTestMode == InitCS /\ [][NextTestMode]_vars

-----------------------------------------------------------------------------
(*                  The AnimationFrameManager on its own                   *)
(* The manager under every sequence of calls of addCallback,               *)
(* removeCallback and destroy, from outside a frame and from a callback    *)
(* the loop of tick is running (one call per run of a callback).  The loop *)
(* iterates over the live Set: a callback removed before its turn is not   *)
(* visited, one added during the loop is.                                  *)
Callbacks == {1, 2}
Manager == ManagerOf(animCallbacks, raf)
ManagerCalls == {"addCallback", "removeCallback", "destroy"}
ManagerCall(m, call, callback) ==
    CASE call = "addCallback" -> addCallback(m, callback)
      [] call = "removeCallback" -> removeCallback(m, callback)
      [] call = "destroy" -> destroy(m)

SetManager(m) == animCallbacks' = m.callbacks /\ raf' = RafOf(m)

(* A call from outside a frame. *)
CallFromOutside ==
    /\ ~frameLoop.active
    /\ CanRequest(Manager)
    /\ \E call \in ManagerCalls : \E callback \in Callbacks :
         /\ SetManager(ManagerCall(Manager, call, callback))
         /\ lastStep' = [kind |-> call, value |-> callback, id |-> 0]
    /\ UNCHANGED frameLoop

(* performance.ts:285-286: the request r fires and tick begins. *)
FrameFires ==
    /\ ~frameLoop.active
    /\ \E r \in raf.pending :
         /\ raf' = [raf EXCEPT !.pending = @ \ {r}]
         /\ frameLoop' = IF raf.isRunning THEN [active |-> TRUE, toVisit |-> animCallbacks]
                         ELSE NoLoop
         /\ lastStep' = [kind |-> "frame", value |-> Cardinality(animCallbacks), id |-> r]
    /\ UNCHANGED animCallbacks

(* performance.ts:293-299: the loop invokes the next callback, which calls *)
(* the manager or does not.                                                *)
CallbackRuns ==
    /\ frameLoop.active
    /\ CanRequest(Manager)
    /\ \E cb \in frameLoop.toVisit \cap animCallbacks :
         \/ /\ UNCHANGED <<animCallbacks, raf>>
            /\ frameLoop' = [frameLoop EXCEPT !.toVisit = @ \ {cb}]
            /\ lastStep' = [kind |-> "callback", value |-> cb, id |-> 0]
         \/ \E call \in ManagerCalls : \E callback \in Callbacks :
              LET m == ManagerCall(Manager, call, callback)
              IN /\ SetManager(m)
                 /\ frameLoop' = [frameLoop EXCEPT
                        !.toVisit = (@ \ {cb}) \cup (m.callbacks \ animCallbacks)]
                 /\ lastStep' = [kind |-> call, value |-> callback, id |-> cb]

(* performance.ts:306: the loop is over and tick requests the next frame. *)
LoopEnds ==
    /\ frameLoop.active
    /\ frameLoop.toVisit \cap animCallbacks = {}
    /\ CanRequest(Manager)
    /\ SetManager(RequestFrame(Manager))
    /\ frameLoop' = NoLoop
    /\ lastStep' = [kind |-> "loopEnd", value |-> 0, id |-> 0]

InitManager == InitCS
(* The calls and frames of the manager leave the round as it is. *)
RoundUntouched ==
    /\ chart = "CandlestickChart"
    /\ pub' = <<>> /\ aggCalls' = <<>> /\ genCalls' = <<>>
    /\ UNCHANGED <<chart, mounted, timers, nextId, round, tickNo, noTickYet, crashes, ccVars,
                   gameState, chartData, currentPrice, testMode, candleIntervalRef, now,
                   syncEff>>
NextManager ==
    \/ CallFromOutside /\ RoundUntouched
    \/ FrameFires /\ RoundUntouched
    \/ CallbackRuns /\ RoundUntouched
    \/ LoopEnds /\ RoundUntouched
SpecManager == InitManager /\ [][NextManager]_vars

-----------------------------------------------------------------------------
(*                         The render clock                                *)
(* The rounds of Spec run without animation frames: a frame changes the    *)
(* displayed price only.  SpecRender adds the frames of both charts, for   *)
(* CrashChart from a running round with two ticks to go and the displayed  *)
(* price at rest on the price of the round.                                *)
InitRenderCC ==
    /\ chart = "CrashChart"
    /\ IdleCS
    /\ mounted = TRUE
    /\ phase = "running"
    /\ crashPoint \in {generateCrashPointCC(Fix(1, 2), Fix(1, 10)),
                       generateCrashPointCC(Fix(1, 10), Fix(9, 10))}
    /\ countdown = 0
    /\ \E c \in Levels : candles = LongBufferCC(INITIAL_PRICE, c, <<0, 0>>, 2, 2)
    /\ targetPrice = candles[Len(candles)].close
    /\ displayPrice = targetPrice
    /\ targetPriceRef = targetPrice
    /\ timers = {Timer(2, "tick", 1, crashPoint)}
    /\ nextId = 3
    /\ startHandle = 1
    /\ tickEff = [deps |-> <<"running", crashPoint>>, handle |-> 2]
    /\ cdEff = [deps |-> 0, handle |-> 0]
    /\ pub = <<>>
    /\ round = 1 /\ tickNo = MaxTicks - 2 /\ noTickYet = FALSE /\ crashes = 0
    /\ lastStep = NoStep /\ aggCalls = <<>> /\ genCalls = <<>>

InitRender == InitRenderCC \/ InitCS
FrameStepCC == RenderFrameCC /\ UNCHANGED csVars /\ aggCalls' = <<>> /\ genCalls' = <<>>
NextRender ==
    \/ FrameStepCC
    \/ TickCC /\ UNCHANGED <<csVars, displayPrice>> /\ aggCalls' = <<>> /\ genCalls' = <<>>
    \/ CrashDelayFiresCC /\ UNCHANGED <<csVars, displayPrice>> /\ aggCalls' = <<>> /\ genCalls' = <<>>
    \/ CountdownFiresCC /\ UNCHANGED csVars /\ aggCalls' = <<>>
    \/ CommitEffectsCC /\ UNCHANGED <<csVars, displayPrice>> /\ aggCalls' = <<>> /\ genCalls' = <<>>
    \/ UnmountCC /\ UNCHANGED <<csVars, displayPrice>> /\ aggCalls' = <<>> /\ genCalls' = <<>>
    \/ AnimationFrameCS /\ UNCHANGED <<ccVars, animCallbacks, testMode, frameLoop>>
         /\ aggCalls' = <<>> /\ genCalls' = <<>>
    \/ NextCS
SpecRender == InitRender /\ [][NextRender]_vars
(* The browser keeps delivering animation frames to a mounted chart. *)
SpecRenderFair == SpecRender /\ WF_vars(FrameStepCC)

-----------------------------------------------------------------------------
(*                    Rounds whose timers do fire                          *)
(* The rounds of a chart mounted afresh, under the guarantee of the event  *)
(* loop that a timeout or interval that stays pending fires, and of React  *)
(* that pending passive effects run.                                       *)
InitLive == InitCC \/ InitCS
StartStepCC == StartTimerFires /\ UNCHANGED csVars /\ aggCalls' = <<>>
CrashDelayStepCC ==
    CrashDelayFiresCC /\ UNCHANGED <<csVars, displayPrice>> /\ aggCalls' = <<>> /\ genCalls' = <<>>
CountdownStepCC == CountdownFiresCC /\ UNCHANGED csVars /\ aggCalls' = <<>>
EffectsStepCC ==
    CommitEffectsCC /\ UNCHANGED <<csVars, displayPrice>> /\ aggCalls' = <<>> /\ genCalls' = <<>>
AutoStartStepCS == AutoStartFires /\ UNCHANGED <<ccVars, testMode, frameLoop>> /\ aggCalls' = <<>>
RestartStepCS == RestartFires /\ UNCHANGED <<ccVars, testMode, frameLoop>> /\ aggCalls' = <<>>
CrashDelayStepCS ==
    /\ CrashDelayFiresCS
    /\ UNCHANGED <<ccVars, currentPrice, animCallbacks, testMode, raf, frameLoop>>
    /\ aggCalls' = <<>> /\ genCalls' = <<>>
CountdownStepCS ==
    /\ CountdownFiresCS
    /\ UNCHANGED <<ccVars, currentPrice, animCallbacks, testMode, raf, frameLoop>>
    /\ aggCalls' = <<>> /\ genCalls' = <<>>
SpecLive ==
    /\ InitLive /\ [][Next]_vars
    /\ WF_vars(StartStepCC) /\ WF_vars(CrashDelayStepCC)
    /\ WF_vars(CountdownStepCC) /\ WF_vars(EffectsStepCC)
    /\ WF_vars(AutoStartStepCS) /\ WF_vars(RestartStepCS)
    /\ WF_vars(CrashDelayStepCS) /\ WF_vars(CountdownStepCS)

-----------------------------------------------------------------------------
(*                  The first round, for every draw                        *)
(* The mount of either chart and the start of its first round, with the    *)
(* draws of generateCrashPoint taken from the whole grid.                  *)
AllDrawsCC == Draws \X Scales
AllDrawsCS == Draws \X Draws \X Scales
InitDraws == InitCC \/ InitCS
NextDraws ==
    \/ StartTimerFiresFrom(AllDrawsCC) /\ UNCHANGED csVars /\ aggCalls' = <<>>
    \/ AutoStartFiresFrom(AllDrawsCS) /\ UNCHANGED <<ccVars, testMode, frameLoop>> /\ aggCalls' = <<>>
SpecDraws == InitDraws /\ [][NextDraws]_vars

-----------------------------------------------------------------------------
(*                              Properties                                 *)

(* A tick timer fired in this step; the timer that fired. *)
TickStep == tickNo' = tickNo + 1
FiredTimer == CHOOSE t \in timers : t.id = lastStep'.id
(* The crash point of the live round, as the component holds it. *)
LiveCrashPoint == IF chart = "CrashChart" THEN crashPoint ELSE gameState.crashPoint
TickTimerIds == {t.id : t \in TimersOf("tick")}

C2_CrashOnFirstCrossing ==
    [][TickStep /\ FiredTimer.round = round =>
         LET c == FiredTimer.cp
             next == lastStep'.value
             crashing == crashes' = crashes + 1
         IN /\ crashing <=> \/ c < Fix(1, 1) /\ next <= c
                            \/ c >= Fix(1, 1) /\ next >= c
            /\ crashing /\ mounted =>
                 IF chart = "CrashChart" THEN phase' = "crashed"
                 ELSE gameState'.hasCrashed /\ ~gameState'.isActive]_vars

(* Crash point 0.745: the ticks 0.9 and 0.8 did not crash, the third, 0.7, *)
(* did.                                                                    *)
C2_Witness ==
    /\ chart = "CandlestickChart" /\ mounted
    /\ gameState.hasCrashed /\ gameState.crashPoint = Fix(745, 1000)
    /\ lastStep.kind = "tick" /\ lastStep.value = Fix(7, 10)
    /\ tickNo = 3 /\ crashes = 1

(* C3: from the crash of a round until the next round starts, every        *)
(* snapshot published, the crash snapshot included, carries the round's    *)
(* crash point as currentMultiplier.                                       *)
C3_CrashMultiplierFrozen ==
    crashes >= 1 =>
        \A i \in DOMAIN pub : pub[i].currentMultiplier = LiveCrashPoint

(* C4: the crash actions run at most once in a round. *)
C4_CrashOncePerRound == crashes <= 1

(* C5: a tick of a timer created for an earlier round, with that round's   *)
(* crash point, changes nothing of the live round and publishes nothing.   *)
C5_StaleTickNoOp ==
    [][TickStep /\ FiredTimer.round < round /\ FiredTimer.cp # LiveCrashPoint =>
         /\ UNCHANGED <<targetPrice, candles, phase, crashPoint, gameState, chartData>>
         /\ pub' = <<>>]_vars

(* C6: at most one tick timer is alive in every state, and a step that     *)
(* creates a tick timer leaves no earlier tick timer alive.                *)
C6_OneTickTimer ==
    [][/\ Cardinality(TickTimerIds') <= 1
       /\ TickTimerIds' \ TickTimerIds # {} => TickTimerIds' \cap TickTimerIds = {}]_vars

(* The second round of CandlestickChart ticks on the timer created for it. *)
C6_Witness ==
    /\ chart = "CandlestickChart" /\ round = 2
    /\ \E t \in TimersOf("tick") : t.round = 2 /\ t.tpv # INITIAL_PRICE

(* C7: after the component is unmounted no timer callback runs and no      *)
(* round is started.                                                       *)
C7_NothingFiresAfterStop ==
    [][~mounted => UNCHANGED <<timers, round, lastStep>>]_vars

ValidCandle(c) == c.low <= Min(c.open, c.close) /\ c.high >= Max(c.open, c.close)
Compactions == {i \in DOMAIN aggCalls : Len(aggCalls[i].in) >= AGGREGATION_THRESHOLD}

(* C8: every candle of the buffer of either chart has its low at or below  *)
(* the smaller and its high at or above the larger of open and close.      *)
C8_CandlesValid ==
    /\ \A i \in DOMAIN candles : ValidCandle(candles[i])
    /\ \A i \in DOMAIN chartData : ValidCandle(chartData[i])

(* A tick of CandlestickChart finalized the open candle and compacted the  *)
(* buffer: a merged candle leads it, the new open candle ends it.          *)
C8_Witness ==
    /\ chart = "CandlestickChart" /\ lastStep.kind = "tick"
    /\ Compactions # {}
    /\ Len(chartData) = AGGREGATION_THRESHOLD - 2
    /\ chartData[1].high > Max(chartData[1].open, chartData[1].close)

(* C9: a call of performCandleAggregation with 30 candles or more returns  *)
(* a buffer shorter by exactly 2 whose first candle opens at the open of   *)
(* the first and closes at the close of the third candle passed, followed  *)
(* by the candles passed from the fourth on.                               *)
C9_CompactionShape ==
    \A i \in Compactions :
        LET in == aggCalls[i].in
            out == aggCalls[i].out
        IN /\ Len(out) = Len(in) - 2
           /\ out[1].open = in[1].open
           /\ out[1].close = in[3].close
           /\ SubSeq(out, 2, Len(out)) = SubSeq(in, 4, Len(in))

(* The crash handler compacted a buffer of 30 whose first candle rises and *)
(* whose third falls.                                                      *)
C9_Witness ==
    /\ chart = "CandlestickChart" /\ crashes = 1
    /\ \E i \in Compactions :
         /\ Len(aggCalls[i].in) = AGGREGATION_THRESHOLD
         /\ aggCalls[i].in[1].open < aggCalls[i].in[1].close
         /\ aggCalls[i].in[3].open > aggCalls[i].in[3].close
         /\ aggCalls[i].in[AGGREGATION_THRESHOLD].close = 0

C11_BufferAtMostThreshold ==
    chart = "CandlestickChart" => Len(chartData) <= AGGREGATION_THRESHOLD

(* The round crashed on a buffer that ticks had filled and compacted: the  *)
(* crash handler was handed 30 candles and left 28, the crash candle last. *)
C11_Witness ==
    /\ chart = "CandlestickChart" /\ crashes = 1 /\ gameState.hasCrashed
    /\ \E i \in Compactions : aggCalls[i].in[Len(aggCalls[i].in)].close = 0
    /\ Len(chartData) = AGGREGATION_THRESHOLD - 2
    /\ chartData[Len(chartData)].close = 0

ShortCalls == {i \in DOMAIN aggCalls : Len(aggCalls[i].in) < AGGREGATION_THRESHOLD}

(* C12: a call of performCandleAggregation with fewer than 30 candles      *)
(* returns the candles it was passed, in the same order.                   *)
C12_ShortBufferUnchanged ==
    \A i \in ShortCalls : aggCalls[i].out = aggCalls[i].in

(* A tick finalized the open candle of a buffer of 28: the 29 candles      *)
(* passed to performCandleAggregation are one short of the threshold.      *)
C12_Witness ==
    /\ chart = "CandlestickChart" /\ lastStep.kind = "tick"
    /\ \E i \in ShortCalls :
         /\ Len(aggCalls[i].in) = AGGREGATION_THRESHOLD - 1
         /\ chartData = aggCalls[i].in

Within(x, lo, hi) == lo <= x /\ x <= hi

(* C13: every crash point generateCrashPoint returns, in either chart, is  *)
(* at least 0.01 and at most 25.0, and it is the crash point of the round  *)
(* that starts in the mounted chart.                                       *)
C13_CrashPointRange ==
    \A i \in DOMAIN genCalls :
        /\ Within(genCalls[i].out, Fix(1, 100), Fix(25, 1))
        /\ mounted => LiveCrashPoint = genCalls[i].out

(* A round of CandlestickChart started with the smallest crash point, 0.01 *)
(* (the lowest range, scaled by a draw of 0).                              *)
C13_Witness ==
    /\ chart = "CandlestickChart" /\ round = 1 /\ lastStep.kind = "start"
    /\ Len(genCalls) = 1 /\ genCalls[1].out = Fix(1, 100)
    /\ gameState.crashPoint = Fix(1, 100)

(* The table of the specification: u selects below or above 1x, the second *)
(* draw (v or w) the range.                                                *)
SpecTable(u, v, out) ==
    /\ out < Fix(1, 1) <=> u < Fix(3, 10)
    /\ u < Fix(3, 10) =>
          IF v < Fix(1, 10) THEN Within(out, Fix(1, 100), Fix(2, 10))
          ELSE IF v < Fix(3, 10) THEN Within(out, Fix(2, 10), Fix(5, 10))
          ELSE Within(out, Fix(5, 10), Fix(99, 100))
    /\ u >= Fix(3, 10) =>
          IF v < Fix(4, 10) THEN Within(out, Fix(101, 100), Fix(2, 1))
          ELSE IF v < Fix(7, 10) THEN Within(out, Fix(2, 1), Fix(5, 1))
          ELSE IF v < Fix(9, 10) THEN Within(out, Fix(5, 1), Fix(10, 1))
          ELSE Within(out, Fix(10, 1), Fix(25, 1))

(* C14: every crash point generateCrashPoint of CandlestickChart returns   *)
(* follows the table of the specification: below 1x exactly when the first *)
(* draw is below 0.30, in the range the second draw selects.               *)
C14_TableCandlestickChart ==
    chart = "CandlestickChart" =>
        \A i \in DOMAIN genCalls :
            SpecTable(genCalls[i].in[1], genCalls[i].in[2], genCalls[i].out)

(* C15: every crash point generateCrashPoint of CrashChart returns follows *)
(* the table of the specification, its second draw selecting the range.    *)
C15_TableCrashChart ==
    chart = "CrashChart" =>
        \A i \in DOMAIN genCalls :
            SpecTable(genCalls[i].in[1], genCalls[i].in[2], genCalls[i].out)

(* C16: the value a tick steps to is at least 0.01, and so are the running *)
(* price kept for the next tick and the multiplier of every snapshot       *)
(* published for a running round.                                          *)
C16_PriceFloor ==
    /\ lastStep.kind = "tick" => lastStep.value >= MIN_PRICE
    /\ chart = "CrashChart" => targetPrice >= MIN_PRICE
    /\ \A t \in TimersOf("tick") : chart = "CandlestickChart" => t.tpv >= MIN_PRICE
    /\ \A i \in DOMAIN pub :
          pub[i].isGameActive => pub[i].currentMultiplier >= MIN_PRICE

(* A tick of CandlestickChart stepped down from 0.05 by 0.1: the floor     *)
(* replaced -0.05 by 0.01, which met the crash point 0.01.                 *)
C16_Witness ==
    /\ chart = "CandlestickChart" /\ lastStep.kind = "tick"
    /\ lastStep.value = MIN_PRICE
    /\ gameState.crashPoint = MIN_PRICE /\ crashes = 1
    /\ chartData[2].low = MIN_PRICE

(* C17: in a CrashChart that stays mounted, once the target no longer      *)
(* changes the displayed price reaches the target the render loop reads    *)
(* after finitely many frames, and equals it from then on.                 *)
C17_DisplayReachesTarget ==
    \/ []<>(~(mounted /\ chart = "CrashChart"))
    \/ <>[](displayPrice = targetPriceRef)

(* A frame found the displayed price within 1e-4 of a target it had been   *)
(* approaching and set it to the target.                                   *)
C17_Witness ==
    /\ chart = "CrashChart" /\ lastStep.kind = "frame"
    /\ lastStep.value # targetPriceRef
    /\ Abs(targetPriceRef - lastStep.value) < SNAP_DISTANCE
    /\ displayPrice = targetPriceRef
    /\ tickNo = MaxTicks

(* C18: the displayed price of either chart is never negative. *)
C18_DisplayNonNegative == displayPrice >= 0 /\ currentPrice >= 0

(* A frame of CrashChart moved the displayed price down, part of the way   *)
(* to a lower target.                                                      *)
C18_Witness ==
    /\ chart = "CrashChart" /\ lastStep.kind = "frame"
    /\ displayPrice < lastStep.value
    /\ displayPrice > targetPriceRef

(* C19: an animation frame leaves the phase, the crash point, the price of *)
(* the round, the countdown and the candles as they are.                   *)
C19_FrameChangesDisplayOnly ==
    [][lastStep'.kind = "frame" =>
          UNCHANGED <<phase, crashPoint, targetPrice, countdown, candles, chartData>>]_vars

(* A frame moved the displayed price of a crashed round whose countdown    *)
(* runs.                                                                   *)
C19_Witness ==
    /\ chart = "CrashChart" /\ lastStep.kind = "frame"
    /\ displayPrice # lastStep.value
    /\ phase = "crashed" /\ countdown > 0
    /\ Len(candles) = 3

(* C20: at most one interpolation callback is registered with the          *)
(* AnimationFrameManager.                                                  *)
C20_OneInterpolationCallback == Cardinality(animCallbacks) <= 1

(* C21: a tick decides the candle boundary with the interval of the test   *)
(* mode shown when it runs: a new candle is opened exactly when the open   *)
(* candle is at least 500 ms old in test mode, 3000 ms old otherwise.      *)
C21_ToggleTakesEffect ==
    [][(TickStep /\ chart = "CandlestickChart" /\ mounted /\ crashes' = crashes
          /\ Len(chartData) > 0)
       => LET age == now' - chartData[Len(chartData)].time
              interval == IF testMode THEN TEST_CANDLE_INTERVAL_MS
                          ELSE CANDLE_INTERVAL_MS
          IN (Len(chartData') = Len(chartData) + 1) <=> (age >= interval)]_vars

(* C22: every snapshot published with isGameActive = TRUE carries the      *)
(* crash point of its round, a value in [0.01, 25.0], never the            *)
(* placeholder 0.                                                          *)
C22_ActiveSnapshotHasCrashPoint ==
    \A i \in DOMAIN pub :
        pub[i].isGameActive => pub[i].crashPoint \in Fix(1, 100)..Fix(25, 1)

(* C23: on the tick that crashes the round the stepped value is folded     *)
(* into the open candle before the collapse candle is appended: the candle *)
(* in front of the collapse candle is the candle that was open, with its   *)
(* open kept, its close at the stepped value and its high and low widened  *)
(* to hold it.                                                             *)
C23_CrashTickFoldsOpenCandle ==
    [][(TickStep /\ mounted /\ crashes' = crashes + 1)
       => LET v == lastStep'.value
              Folded(before, after) ==
                  /\ after.open = before.open
                  /\ after.close = v
                  /\ after.high >= Max(before.high, v)
                  /\ after.low <= Min(before.low, v)
          IN /\ (chart = "CrashChart" /\ Len(candles) > 0)
                  => Folded(candles[Len(candles)], candles'[Len(candles') - 1])
             /\ (chart = "CandlestickChart" /\ Len(chartData) > 0
                   /\ Len(chartData') = Len(chartData) + 1)
                  => Folded(chartData[Len(chartData)], chartData'[Len(chartData') - 1])]_vars

(* C24: a tick that neither crashes the round nor closes the candle, with  *)
(* value v, leaves the open candle with high = max(previous high, v),      *)
(* low = min(previous low, v), close = v and, where ticks are counted, one *)
(* tick more; so the high never decreases and the low never increases.     *)
C24_FoldIsMaxMin ==
    [][(TickStep /\ mounted /\ crashes' = crashes)
       => LET v == lastStep'.value
              Folded(before, after) ==
                  /\ after.open = before.open
                  /\ after.close = v
                  /\ after.high = Max(before.high, v)
                  /\ after.low = Min(before.low, v)
          IN /\ (chart = "CrashChart" /\ Len(candles) > 0
                   /\ candles[Len(candles)].ticks + 1 < TICKS_PER_CANDLE)
                  => /\ Len(candles') = Len(candles)
                     /\ Folded(candles[Len(candles)], candles'[Len(candles')])
                     /\ candles'[Len(candles')].ticks = candles[Len(candles)].ticks + 1
             /\ (chart = "CandlestickChart" /\ Len(chartData) > 0
                   /\ ~CandleDue(chartData, now'))
                  => /\ Len(chartData') = Len(chartData)
                     /\ Folded(chartData[Len(chartData)], chartData'[Len(chartData')])]_vars

(* C25: the open candle is closed and a new one opened exactly on the tick *)
(* that brings its tick count to 5.                                        *)
C25_CandleClosesAtFiveTicks ==
    [][(TickStep /\ mounted /\ chart = "CrashChart" /\ crashes' = crashes
          /\ Len(candles) > 0)
       => LET newTicks == candles[Len(candles)].ticks + 1
              closed == /\ Len(candles') > 1
                        /\ candles'[Len(candles')].ticks = 0
                        /\ candles'[Len(candles') - 1].ticks = newTicks
          IN closed <=> (newTicks = 5)]_vars

(* C26: a round enters running with the crash point just drawn for it     *)
(* installed, and its first tick finds the round as the start set it up:   *)
(* the multiplier at 1.0, that crash point, and the buffer holding exactly *)
(* the opening candle 1.0/1.0/1.0/1.0 (with tick count 0 where ticks are   *)
(* counted).                                                               *)
C26_FirstTickFindsFreshRound ==
    [][/\ (lastStep'.kind = "start" /\ mounted)
           => /\ LiveCrashPoint' = genCalls'[1].out
              /\ IF chart = "CrashChart" THEN phase' = "running" ELSE gameState'.isActive
       /\ (TickStep /\ noTickYet /\ mounted)
           => /\ LiveCrashPoint \in Fix(1, 100)..Fix(25, 1)
              /\ IF chart = "CrashChart"
                 THEN /\ phase = "running"
                      /\ targetPrice = INITIAL_PRICE
                      /\ candles = <<FlatCandleCC(INITIAL_PRICE, 0)>>
                 ELSE /\ gameState.isActive
                      /\ gameState.multiplier = INITIAL_PRICE
                      /\ gameState.crashPoint = FiredTimer.cp
                      /\ Len(chartData) = 1
                      /\ chartData[1].open = INITIAL_PRICE
                      /\ chartData[1].high = INITIAL_PRICE
                      /\ chartData[1].low = INITIAL_PRICE
                      /\ chartData[1].close = INITIAL_PRICE]_vars

(* The first tick of a second round has been processed. *)
C26_Witness == round = 2 /\ ~noTickYet /\ lastStep.kind = "tick" /\ mounted

(* C27: the firing of the crash delay sets the countdown to 5; every       *)
(* firing of the countdown interval finds it at 1 or more and takes it     *)
(* down by exactly 1; the next round is started by the firing that takes   *)
(* it to 0 (in CrashChart in that firing, in CandlestickChart by the       *)
(* restart it schedules) and by no other.                                  *)
C27_CountdownStepsByOne ==
    [][LET c == IF chart = "CrashChart" THEN countdown ELSE gameState.countdown
           cNext == IF chart = "CrashChart" THEN countdown' ELSE gameState'.countdown
           restarts == {t \in timers' \ timers : t.kind = "restart"}
       IN /\ (lastStep'.kind = "crashDelay" /\ mounted) => cNext = COUNTDOWN_SECONDS
          /\ (lastStep'.kind = "countdown" /\ mounted)
               => /\ c >= 1
                  /\ cNext = c - 1
                  /\ IF chart = "CrashChart" THEN (round' = round + 1) <=> (c = 1)
                     ELSE (restarts # {}) <=> (c = 1)
          /\ (lastStep'.kind = "start" /\ round >= 1 /\ mounted) => c = 0
          /\ (round' # round /\ chart = "CrashChart" /\ round >= 1)
               => lastStep'.kind = "countdown"]_vars

(* C28: a tick that does not crash the round publishes exactly one         *)
(* snapshot: active, with the multiplier the tick stepped to and the crash *)
(* point of the round.                                                     *)
C28_OneSnapshotPerTick ==
    [][(TickStep /\ mounted /\ crashes' = crashes)
       => pub' = <<Snapshot(TRUE, lastStep'.value, LiveCrashPoint')>>]_vars

(* C29: when a new round is created, no tick interval, crash delay         *)
(* timeout, countdown interval or fade-out interval of an earlier round is *)
(* alive.                                                                  *)
C29_NoOldTimerAtRoundStart ==
    [][(round' = round + 1 /\ mounted)
       => ~\E t \in timers' :
             /\ t.round <= round
             /\ t.kind \in {"tick", "crashDelay", "countdown", "fadeOut"}]_vars

(* C30: a call of startGame / startNewGame made while a round is running   *)
(* is ignored: the crash point, the multiplier and the candles of the      *)
(* running round stay as they are and no second tick timer runs. startGame *)
(* is called by the start timeout and by a countdown firing at 1 or less,  *)
(* startNewGame by the auto-start and the restart timeout.                 *)
C30_StartWhileRunningIgnored ==
    [][LET startInvoked ==
               \/ lastStep'.kind = "start"
               \/ chart = "CrashChart" /\ lastStep'.kind = "countdown" /\ countdown <= 1
           running == IF chart = "CrashChart" THEN phase = "running"
                      ELSE gameState.isActive
       IN (startInvoked /\ running /\ mounted)
          => /\ LiveCrashPoint' = LiveCrashPoint
             /\ targetPrice' = targetPrice /\ gameState'.multiplier = gameState.multiplier
             /\ candles' = candles /\ chartData' = chartData
             /\ Cardinality({t \in timers' : t.kind = "tick"}) <= 1]_vars

(* C31: the step that crashes a round leaves a collapse candle with        *)
(* close = 0 and low = 0 as the last candle of the buffer, and in no state *)
(* does any candle in front of the last one have a close or a low of 0.    *)
C31_ZeroOnlyInCollapseCandle ==
    [][LET buf == IF chart = "CrashChart" THEN candles' ELSE chartData'
       IN /\ \A i \in 1..(Len(buf) - 1) : buf[i].close # 0 /\ buf[i].low # 0
          /\ (crashes' = crashes + 1 /\ mounted)
               => /\ Len(buf) > 0
                  /\ buf[Len(buf)].close = 0 /\ buf[Len(buf)].low = 0]_vars

(* C32: a tick that closes the open candle opens the next one flat at the  *)
(* closed candle's close: its open, high, low and close all equal that     *)
(* close.                                                                  *)
C32_NextOpensAtPreviousClose ==
    [][(TickStep /\ mounted /\ crashes' = crashes)
       => /\ (chart = "CrashChart" /\ Len(candles) > 0
                /\ candles[Len(candles)].ticks + 1 >= TICKS_PER_CANDLE)
               => LET n == Len(candles')
                  IN /\ n >= 2
                     /\ candles'[n].open = candles'[n - 1].close
                     /\ candles'[n].high = candles'[n - 1].close
                     /\ candles'[n].low = candles'[n - 1].close
                     /\ candles'[n].close = candles'[n - 1].close
                     /\ candles'[n - 1].open = candles[Len(candles)].open
          /\ (chart = "CandlestickChart" /\ Len(chartData) > 0
                /\ CandleDue(chartData, now'))
               => LET n == Len(chartData')
                  IN /\ n >= 2
                     /\ chartData'[n].open = chartData'[n - 1].close
                     /\ chartData'[n].high = chartData'[n - 1].close
                     /\ chartData'[n].low = chartData'[n - 1].close
                     /\ chartData'[n].close = chartData'[n - 1].close
                     /\ chartData'[n - 1].open = chartData[Len(chartData)].open]_vars

(* A tick has closed a candle and opened the next: in CrashChart, in       *)
(* CandlestickChart.                                                       *)
C32_Witness ==
    /\ lastStep.kind = "tick" /\ mounted /\ crashes = 0
    /\ \/ chart = "CrashChart" /\ Len(candles) >= 2
             /\ candles[Len(candles)].ticks = 0
             /\ candles[Len(candles) - 1].ticks = TICKS_PER_CANDLE
             /\ candles[Len(candles)].open = lastStep.value
       \/ chart = "CandlestickChart" /\ Len(chartData) >= 2
             /\ chartData[Len(chartData)].time = now
             /\ chartData[Len(chartData)].open = lastStep.value

(* C33: a frame that finds the displayed price 0.0001 or more away from    *)
(* the target moves it by 0.15 of the distance (to the unit of the fixed   *)
(* point, rounded down), so that 1.0 becomes 1.15 for the target 2.0; a    *)
(* frame that finds it closer than 0.0001 sets it to the target.           *)
C33_FrameStepsFifteenPercent ==
    [][(lastStep'.kind = "frame" /\ chart = "CrashChart")
       => LET diff == targetPriceRef - displayPrice
              moved == displayPrice' - displayPrice
          IN /\ Abs(diff) < Fix(1, 10000) => displayPrice' = targetPriceRef
             /\ Abs(diff) >= Fix(1, 10000)
                  => /\ 100 * moved <= 15 * diff
                     /\ 15 * diff < 100 * (moved + 1)
             /\ Lerp(Fix(1, 1), Fix(2, 1)) = Fix(115, 100)]_vars

(* A frame has moved the displayed price by a part of the distance. *)
C33_Witness ==
    /\ chart = "CrashChart" /\ lastStep.kind = "frame"
    /\ lastStep.value # displayPrice
    /\ displayPrice # targetPriceRef
    /\ Abs(targetPriceRef - lastStep.value) >= Fix(1, 10000)

(* C38: the AnimationFrameManager has at most one animation frame request *)
(* pending, whatever calls of addCallback, removeCallback and destroy are  *)
(* made, from callbacks of a running frame included.                       *)
C38_OneRequestPending == Cardinality(raf.pending) <= 1

(* C34: a stop operation invoked twice leaves the state one invocation     *)
(* leaves, and no timer alive: stopSmoothInterpolation and the clearing of *)
(* the tick interval in the cleanup of an unmount, and destroy of the      *)
(* AnimationFrameManager in the state the chart has brought it to.         *)
C34_StopTwiceIsStopOnce ==
    [][(lastStep'.kind = "unmount" /\ chart = "CandlestickChart")
       => LET once == ManagerOf(animCallbacks', raf')
              cleared == ClearTimer(timers, candleIntervalRef)
          IN /\ stopSmoothInterpolation(once) = once
             /\ ClearTimer(cleared, candleIntervalRef) = cleared
             /\ destroy(destroy(once)) = destroy(once)
             /\ destroy(once).pending = {}
             /\ {t \in timers' : t.kind = "tick"} = {}
             /\ once.pending = {}]_vars

(* C35: a crash is followed by a new running round: whenever a mounted     *)
(* chart is in the crashed phase of a round that is not the last the       *)
(* exploration allows, later the chart is unmounted or a later round is    *)
(* running.                                                                *)
C35_CrashLeadsToNewRound ==
    \A k \in 1..(MaxRounds - 1) :
        (/\ mounted /\ round = k
         /\ IF chart = "CrashChart" THEN phase = "crashed"
            ELSE gameState.hasCrashed /\ ~gameState.isActive)
        ~> (\/ ~mounted
            \/ /\ round > k
               /\ IF chart = "CrashChart" THEN phase = "running" ELSE gameState.isActive)

(* A round started by the countdown that followed a crash is running. *)
C35_Witness ==
    /\ mounted /\ round = 2 /\ noTickYet
    /\ lastStep.kind \in {"start", "countdown"}
    /\ IF chart = "CrashChart" THEN phase = "running" /\ countdown = 0
       ELSE gameState.isActive /\ ~gameState.hasCrashed

(* C36: the step that crashes a round removes and replaces no candle: the  *)
(* buffer grows by the collapse candle (and by the candle the same tick    *)
(* opened, where one was due), the candles in front of the open candle are *)
(* the same, and the open candle keeps its open, with a high no lower and  *)
(* a low no higher than before.                                            *)
C36_CrashKeepsBuffer ==
    [][(crashes' = crashes + 1 /\ mounted)
       => LET old == IF chart = "CrashChart" THEN candles ELSE chartData
              new == IF chart = "CrashChart" THEN candles' ELSE chartData'
              n == Len(old)
          IN /\ Len(new) \in {n + 1, n + 2}
             /\ \A i \in 1..(n - 1) : new[i] = old[i]
             /\ n > 0 => /\ new[n].open = old[n].open
                         /\ new[n].high >= old[n].high
                         /\ new[n].low <= old[n].low]_vars

(* C37: in CrashChart the candle buffer holds at most 50 candles in every  *)
(* reachable state, the state after the collapse candle is appended        *)
(* included.                                                               *)
C37_AtMostFiftyCandles == chart = "CrashChart" => Len(candles) <= MAX_CANDLES

(* C39: in CandlestickChart every tick whose updater runs finds a candle   *)
(* in the buffer: no tick of a mounted chart reads the last candle of an   *)
(* empty chartData.                                                        *)
C39_TickFindsCandle ==
    [][(TickStep /\ chart = "CandlestickChart" /\ mounted) => Len(chartData) > 0]_vars

(* The first tick of a round has run, on the opening candle alone. *)
C39_Witness ==
    /\ chart = "CandlestickChart" /\ mounted /\ lastStep.kind = "tick"
    /\ round = 2 /\ Len(chartData) = 1
    /\ chartData[1].open = INITIAL_PRICE

=============================================================================
